---- MODULE Spec2Model ----
\* A model of the slidev-mcp server: the pure text functions of src/src/tools.ts
\* (outline generation, deck rendering, content validation), the recommendation
\* helpers of src/src/index.ts and the CallTool request handler of src/src/index.ts.
\*
\* A text is a sequence of characters, each character a one-letter string; the
\* JavaScript string operations the code uses (includes, startsWith, split, join,
\* trim, toLowerCase, template interpolation) are operators on such sequences.
EXTENDS Integers, Sequences, FiniteSets, TLC

VARIABLES
    phase,      \* position of the function call under study: "input..", then "rendered" or "done.."
    input,      \* the arguments of the function call under study
    output,     \* its return value (meaningful once phase = "done")
    pc,         \* CallTool handler: position of the request being handled
    request,    \* CallTool handler: the request (tool name and parsed arguments)
    local,      \* CallTool handler: the handler's local constants
    response,   \* CallTool handler: the value the handler returned
    fs,         \* the files on disk: path -> content
    dirs,       \* the directories created on disk
    fsFails     \* the filesystem operations (mkdir, writeFile) that reject

vars == <<phase, input, output, pc, request, local, response, fs, dirs, fsFails>>

funVars == <<phase, input, output>>

srvVars == <<pc, request, local, response, fs, dirs, fsFails>>

-----------------------------------------------------------------------------
\* JavaScript strings

\* An optional argument (zod .optional(), a `?` parameter): absent, or a value.
Undefined == [present |-> FALSE]

Some(v) == [present |-> TRUE, value |-> v]

EmptyText == <<>>

Min(S) == CHOOSE i \in S : \A j \in S : i <= j

\* Math.max(a, b), Math.min(a, b)
Max2(a, b) == IF a >= b THEN a ELSE b

Min2(a, b) == IF a <= b THEN a ELSE b

\* s.includes(p)
Includes(s, p) ==
    \E i \in 0..(Len(s) - Len(p)) : \A j \in 1..Len(p) : s[i + j] = p[j]

\* s.startsWith(p)
StartsWith(s, p) ==
    Len(p) <= Len(s) /\ \A j \in 1..Len(p) : s[j] = p[j]

\* The positions (1-based) at which the non-empty text d occurs in s.
Occurrences(s, d) ==
    {i \in 1..(Len(s) - Len(d) + 1) : \A j \in 1..Len(d) : s[i + j - 1] = d[j]}

\* s.split(d) from position `from` on: occurrences are taken left to right and
\* never overlap; the text after the last occurrence is the last part.
RECURSIVE SplitFrom(_, _, _, _)
SplitFrom(s, d, occ, from) ==
    LET next == {i \in occ : i >= from}
    IN  IF next = {}
        THEN <<SubSeq(s, from, Len(s))>>
        ELSE LET m == Min(next)
             IN  <<SubSeq(s, from, m - 1)>> \o SplitFrom(s, d, occ, m + Len(d))

\* s.split(d) for a non-empty separator d
Split(s, d) == SplitFrom(s, d, Occurrences(s, d), 1)

\* parts.join(sep)
RECURSIVE Join(_, _)
Join(parts, sep) ==
    IF Len(parts) = 0 THEN EmptyText
    ELSE IF Len(parts) = 1 THEN parts[1]
    ELSE parts[1] \o sep \o Join(Tail(parts), sep)

\* array.slice(from) and array.slice(0, to) with 0-based bounds as in JavaScript
SliceFrom(a, from) == SubSeq(a, from + 1, Len(a))

\* a negative `to` counts from the end
SliceTo(a, to) == SubSeq(a, 1, IF to < 0 THEN Max2(Len(a) + to, 0) ELSE Min2(to, Len(a)))

WhiteSpace == {" ", "\n", "\t", "\r"}

\* s.trim()
Trim(s) ==
    LET keep == {i \in 1..Len(s) : s[i] \notin WhiteSpace}
    IN  IF keep = {} THEN EmptyText
        ELSE SubSeq(s, Min(keep), CHOOSE i \in keep : \A j \in keep : j <= i)

\* The truth value JavaScript gives a string: the empty string is falsy.
Truthy(s) == Len(s) > 0

UpperCase == <<"A","B","C","D","E","F","G","H","I","J","K","L","M",
               "N","O","P","Q","R","S","T","U","V","W","X","Y","Z">>

LowerCase == <<"a","b","c","d","e","f","g","h","i","j","k","l","m",
               "n","o","p","q","r","s","t","u","v","w","x","y","z">>

LowerChar(c) ==
    IF \E k \in 1..26 : UpperCase[k] = c
    THEN LowerCase[CHOOSE k \in 1..26 : UpperCase[k] = c]
    ELSE c

\* s.toLowerCase()
ToLowerCase(s) == [i \in 1..Len(s) |-> LowerChar(s[i])]

Digits == <<"0","1","2","3","4","5","6","7","8","9">>

\* String(n) for a natural number n, as a template literal `${n}` prints it
RECURSIVE NatToText(_)
NatToText(n) ==
    IF n < 10 THEN <<Digits[n + 1]>>
    ELSE NatToText(n \div 10) \o <<Digits[(n % 10) + 1]>>

\* `${n}` for an integer n
IntToText(n) == IF n < 0 THEN <<"-">> \o NatToText(0 - n) ELSE NatToText(n)

\* array.map(f), array.filter(f)
Map(a, f(_)) == [i \in 1..Len(a) |-> f(a[i])]

NewLine == <<"\n">>

-----------------------------------------------------------------------------
\* src/src/tools.ts: validateSlideContent

\* Dashes is the text "---"
Dashes == <<"-","-","-">>
\* SlideDelimiter is the text "\n---\n"
SlideDelimiter == <<"\n","-","-","-","\n">>
\* Colon is the text ":"
Colon == <<":">>
\* MissingSeparators is the text "Missing slide separators (---)"
MissingSeparators == <<"M","i","s","s","i","n","g"," ","s","l","i","d","e"," ","s","e","p","a",
    "r","a","t","o","r","s"," ","(","-","-","-",")">>
\* MissingFrontmatter is the text "Missing frontmatter at the beginning"
MissingFrontmatter == <<"M","i","s","s","i","n","g"," ","f","r","o","n","t","m","a","t","t","e",
    "r"," ","a","t"," ","t","h","e"," ","b","e","g","i","n","n","i","n","g">>
\* SlidePrefix is the text "Slide\s"
SlidePrefix == <<"S","l","i","d","e"," ">>
\* AppearsEmpty is the text "\sappears to be empty"
AppearsEmpty == <<" ","a","p","p","e","a","r","s"," ","t","o"," ","b","e"," ","e","m","p","t","y">>

\* Mutant: a line with a colon counts as content.
IsContentLine_KeepColon(line) == Truthy(Trim(line)) /\ ~StartsWith(line, Dashes)

\* The filter of tools.ts:149-151: the line survives when it is not blank, does
\* not start with '---' and contains no ':'.
IsContentLine(line) ==
    Truthy(Trim(line)) /\ ~StartsWith(line, Dashes) /\ ~Includes(line, Colon)

ContentLines(slide) == SelectSeq(Split(slide, NewLine), IsContentLine)

\* `Slide ${index + 1} appears to be empty`, index the 0-based position
EmptySlideError(index) == SlidePrefix \o IntToText(index + 1) \o AppearsEmpty

\* The errors the forEach of tools.ts:148-155 pushes for slides[k..], in order.
RECURSIVE EmptySlideErrors(_, _)
EmptySlideErrors(slides, k) ==
    IF k > Len(slides) THEN <<>>
    ELSE (IF Len(ContentLines(slides[k])) = 0 THEN <<EmptySlideError(k - 1)>> ELSE <<>>)
         \o EmptySlideErrors(slides, k + 1)

\* Mutant: the front-matter check runs before the separator check.
ValidateErrors_FrontmatterFirst(content) ==
    (IF ~StartsWith(content, Dashes) THEN <<MissingFrontmatter>> ELSE <<>>)
    \o (IF ~Includes(content, Dashes) THEN <<MissingSeparators>> ELSE <<>>)
    \o EmptySlideErrors(Split(content, SlideDelimiter), 1)

ValidateErrors(content) ==
    (IF ~Includes(content, Dashes) THEN <<MissingSeparators>> ELSE <<>>)
    \o (IF ~StartsWith(content, Dashes) THEN <<MissingFrontmatter>> ELSE <<>>)
    \o EmptySlideErrors(Split(content, SlideDelimiter), 1)

\* Mutant: a single error still counts as valid.
validateSlideContent_OneErrorValid(content) ==
    LET errors == ValidateErrors(content)
    IN  [isValid |-> Len(errors) <= 1, errors |-> errors]

validateSlideContent(content) ==
    LET errors == ValidateErrors(content)
    IN  [isValid |-> Len(errors) = 0, errors |-> errors]

-----------------------------------------------------------------------------
\* src/src/tools.ts: generatePresentationOutline

MinSlides == 5

MaxSlides == 20

DefaultDuration == 30

\* Mutant: the lower clamp Math.max(5, ...) is missing.
SlideCount_NoMinimum(duration) == Min2(MaxSlides, duration \div 2)

\* Mutant: the duration's sign is dropped before clamping.
SlideCount_Abs(duration) ==
    Max2(MinSlides, Min2(MaxSlides, (IF duration < 0 THEN 0 - duration ELSE duration) \div 2))

\* Math.max(5, Math.min(20, Math.floor(duration / 2))) for an integer duration
SlideCount(duration) == Max2(MinSlides, Min2(MaxSlides, duration \div 2))

\* Mutant: half of the slides are content slides (factor 0.5 for 0.6).
ContentSlides_Half(slides) == (slides * 5) \div 10

\* Mutant: the product is rounded up (Math.ceil for Math.floor).
ContentSlides_Ceiling(slides) == ((slides * 6) + 9) \div 10

\* Math.floor(slides * 0.6): for the integers 5..20 the double product slides * 0.6
\* rounds to the exact integer at the multiples of 5, so the floor is that of 6*slides/10.
ContentSlides(slides) == (slides * 6) \div 10

\* TitlePrefix is the text "Title:\s"
TitlePrefix == <<"T","i","t","l","e",":"," ">>
\* IntroductionAndOverview is the text "Introduction and Overview"
IntroductionAndOverview == <<"I","n","t","r","o","d","u","c","t","i","o","n"," ","a","n","d"," ",
    "O","v","e","r","v","i","e","w">>
\* BackgroundAndContext is the text "Background and Context"
BackgroundAndContext == <<"B","a","c","k","g","r","o","u","n","d"," ","a","n","d"," ","C","o","n",
    "t","e","x","t">>
\* MainContentPrefix is the text "Main Content\s"
MainContentPrefix == <<"M","a","i","n"," ","C","o","n","t","e","n","t"," ">>
\* KeyTakeaways is the text "Key Takeaways"
KeyTakeaways == <<"K","e","y"," ","T","a","k","e","a","w","a","y","s">>
\* Conclusion is the text "Conclusion"
Conclusion == <<"C","o","n","c","l","u","s","i","o","n">>
\* QandA is the text "Q&A"
QandA == <<"Q","&","A">>

\* Mutant: the loop counts from 0.
MainContentItems_FromZero(contentSlides) ==
    [i \in 1..contentSlides |-> MainContentPrefix \o IntToText(i - 1)]

\* the items pushed by the loop of tools.ts:13-15
MainContentItems(contentSlides) ==
    [i \in 1..contentSlides |-> MainContentPrefix \o IntToText(i)]

\* Mutant: the first item is the bare topic, without the 'Title: ' prefix.
FullOutline_BareTopic(topic, slides) ==
    <<topic, IntroductionAndOverview, BackgroundAndContext>>
    \o MainContentItems(ContentSlides(slides))
    \o <<KeyTakeaways, Conclusion, QandA>>

\* Mutant: the last two sections are one item whose label holds two role keywords.
FullOutline_ConclusionAndQuestions(topic, slides) ==
    LET
        \* conclusionAndQuestions is the text "Conclusion and Q&A"
        conclusionAndQuestions == <<"C","o","n","c","l","u","s","i","o","n"," ","a","n","d"," ",
            "Q","&","A">>
    IN  <<TitlePrefix \o topic, IntroductionAndOverview, BackgroundAndContext>>
        \o MainContentItems(ContentSlides(slides))
        \o <<KeyTakeaways, conclusionAndQuestions>>

\* the outline before the final slice
FullOutline(topic, slides) ==
    <<TitlePrefix \o topic, IntroductionAndOverview, BackgroundAndContext>>
    \o MainContentItems(ContentSlides(slides))
    \o <<KeyTakeaways, Conclusion, QandA>>

generatePresentationOutline(topic, duration) ==
    LET slides == SlideCount(duration)
    IN  SliceTo(FullOutline(topic, slides), slides)

-----------------------------------------------------------------------------
\* src/src/tools.ts: createTableOfContents, createPresentationFromOutline

\* BulletPrefix is the text "-\s"
BulletPrefix == <<"-"," ">>
\* SlideTail is the text "\n\n---\n"
SlideTail == <<"\n","\n","-","-","-","\n">>

TocItem(topic) == BulletPrefix \o topic

\* Mutant: the table of contents skips its first topic.
createTableOfContents_SkipFirst(topics) ==
    LET
        \* tocHead is the text "---\nlayout: center\n---\n\n# Table of Contents\n\n"
        tocHead == <<"-","-","-","\n","l","a","y","o","u","t",":"," ","c","e","n","t","e","r",
            "\n","-","-","-","\n","\n","#"," ","T","a","b","l","e"," ","o","f"," ","C","o","n",
            "t","e","n","t","s","\n","\n">>
    IN  tocHead \o Join(Map(SliceFrom(topics, 1), TocItem), NewLine) \o SlideTail

createTableOfContents(topics) ==
    LET tocItems == Join(Map(topics, TocItem), NewLine)
        \* tocHead is the text "---\nlayout: center\n---\n\n# Table of Contents\n\n"
        tocHead == <<"-","-","-","\n","l","a","y","o","u","t",":"," ","c","e","n","t","e","r",
            "\n","-","-","-","\n","\n","#"," ","T","a","b","l","e"," ","o","f"," ","C","o","n",
            "t","e","n","t","s","\n","\n">>
    IN  tocHead \o tocItems \o SlideTail

\* slides[0] of tools.ts:48-64: the front matter and the title slide
TitleSlide(title, author, theme) ==
    LET
        \* fmTheme is the text "---\ntheme:\s"
        fmTheme == <<"-","-","-","\n","t","h","e","m","e",":"," ">>
        \* fmTitle is the text "\ntitle:\s"
        fmTitle == <<"\n","t","i","t","l","e",":"," ">>
        \* fmAuthor is the text "\nauthor:\s"
        fmAuthor == <<"\n","a","u","t","h","o","r",":"," ">>
        \* fmRest is the text "\ndrawings:\n  enabled: true\n  persist: false\ntransition: slide-left\ncolorSchema: auto\n---\n\n#\s"
        fmRest == <<"\n","d","r","a","w","i","n","g","s",":","\n"," "," ","e","n","a","b","l","e",
            "d",":"," ","t","r","u","e","\n"," "," ","p","e","r","s","i","s","t",":"," ","f","a",
            "l","s","e","\n","t","r","a","n","s","i","t","i","o","n",":"," ","s","l","i","d","e",
            "-","l","e","f","t","\n","c","o","l","o","r","S","c","h","e","m","a",":"," ","a","u",
            "t","o","\n","-","-","-","\n","\n","#"," ">>
        \* presentationBy is the text "\n\nA presentation by\s"
        presentationBy == <<"\n","\n","A"," ","p","r","e","s","e","n","t","a","t","i","o","n"," ",
            "b","y"," ">>
    IN  fmTheme \o theme \o fmTitle \o title \o fmAuthor \o author \o fmRest \o title
        \o presentationBy \o author \o SlideTail

\* DefaultTheme is the text "seriph"
DefaultTheme == <<"s","e","r","i","p","h">>
\* KwIntroduction is the text "introduction"
KwIntroduction == <<"i","n","t","r","o","d","u","c","t","i","o","n">>
\* KwConclusion is the text "conclusion"
KwConclusion == <<"c","o","n","c","l","u","s","i","o","n">>
\* KwQandA is the text "q&a"
KwQandA == <<"q","&","a">>
\* LayoutDefault is the text "default"
LayoutDefault == <<"d","e","f","a","u","l","t">>
\* LayoutIntro is the text "intro"
LayoutIntro == <<"i","n","t","r","o">>
\* LayoutStatement is the text "statement"
LayoutStatement == <<"s","t","a","t","e","m","e","n","t">>
\* LayoutEnd is the text "end"
LayoutEnd == <<"e","n","d">>
\* Mutant: 'conclusion' is looked for before 'introduction'.
ItemLayout_ConclusionFirst(item) ==
    IF Includes(ToLowerCase(item), KwConclusion) THEN LayoutStatement
    ELSE IF Includes(ToLowerCase(item), KwIntroduction) THEN LayoutIntro
    ELSE IF Includes(ToLowerCase(item), KwQandA) THEN LayoutEnd
    ELSE LayoutDefault

\* the layout chosen for an outline item, tools.ts:70-103
ItemLayout(item) ==
    IF Includes(ToLowerCase(item), KwIntroduction) THEN LayoutIntro
    ELSE IF Includes(ToLowerCase(item), KwConclusion) THEN LayoutStatement
    ELSE IF Includes(ToLowerCase(item), KwQandA) THEN LayoutEnd
    ELSE LayoutDefault

\* the body chosen for an outline item, tools.ts:71-117
ItemContent(item, title, author) ==
    LET
        \* introHead is the text "## Welcome\n\nThis presentation covers\s"
        introHead == <<"#","#"," ","W","e","l","c","o","m","e","\n","\n","T","h","i","s"," ","p",
            "r","e","s","e","n","t","a","t","i","o","n"," ","c","o","v","e","r","s"," ">>
        \* introTail is the text ".\n\n### What you'll learn:\n- Key concepts and principles\n- Practical applications\n- Real-world examples"
        introTail == <<".","\n","\n","#","#","#"," ","W","h","a","t"," ","y","o","u","'","l","l",
            " ","l","e","a","r","n",":","\n","-"," ","K","e","y"," ","c","o","n","c","e","p","t",
            "s"," ","a","n","d"," ","p","r","i","n","c","i","p","l","e","s","\n","-"," ","P","r",
            "a","c","t","i","c","a","l"," ","a","p","p","l","i","c","a","t","i","o","n","s","\n",
            "-"," ","R","e","a","l","-","w","o","r","l","d"," ","e","x","a","m","p","l","e","s">>
        \* summaryHead is the text "## Summary\n\nWe've covered the essential aspects of\s"
        summaryHead == <<"#","#"," ","S","u","m","m","a","r","y","\n","\n","W","e","'","v","e",
            " ","c","o","v","e","r","e","d"," ","t","h","e"," ","e","s","s","e","n","t","i","a",
            "l"," ","a","s","p","e","c","t","s"," ","o","f"," ">>
        \* summaryTail is the text ".\n\n### Key takeaways:\n- Point 1\n- Point 2\n- Point 3"
        summaryTail == <<".","\n","\n","#","#","#"," ","K","e","y"," ","t","a","k","e","a","w",
            "a","y","s",":","\n","-"," ","P","o","i","n","t"," ","1","\n","-"," ","P","o","i","n",
            "t"," ","2","\n","-"," ","P","o","i","n","t"," ","3">>
        \* questionsHead is the text "# Questions?\n\nThank you for your attention!\n\nContact:\s"
        questionsHead == <<"#"," ","Q","u","e","s","t","i","o","n","s","?","\n","\n","T","h","a",
            "n","k"," ","y","o","u"," ","f","o","r"," ","y","o","u","r"," ","a","t","t","e","n",
            "t","i","o","n","!","\n","\n","C","o","n","t","a","c","t",":"," ">>
        \* genericHead is the text "##\s"
        genericHead == <<"#","#"," ">>
        \* genericComment is the text "\n\n<!-- Add your content for ""
        genericComment == <<"\n","\n","<","!","-","-"," ","A","d","d"," ","y","o","u","r"," ","c",
            "o","n","t","e","n","t"," ","f","o","r"," ","\"">>
        \* genericTail is the text "" here -->\n\n### Key Points:\n- Point 1\n- Point 2\n- Point 3\n\n### Details:\n- Additional information\n- Supporting evidence\n- Examples"
        genericTail == <<"\""," ","h","e","r","e"," ","-","-",">","\n","\n","#","#","#"," ","K",
            "e","y"," ","P","o","i","n","t","s",":","\n","-"," ","P","o","i","n","t"," ","1","\n",
            "-"," ","P","o","i","n","t"," ","2","\n","-"," ","P","o","i","n","t"," ","3","\n",
            "\n","#","#","#"," ","D","e","t","a","i","l","s",":","\n","-"," ","A","d","d","i","t",
            "i","o","n","a","l"," ","i","n","f","o","r","m","a","t","i","o","n","\n","-"," ","S",
            "u","p","p","o","r","t","i","n","g"," ","e","v","i","d","e","n","c","e","\n","-"," ",
            "E","x","a","m","p","l","e","s">>
    IN  IF Includes(ToLowerCase(item), KwIntroduction)
        THEN introHead \o ToLowerCase(title) \o introTail
        ELSE IF Includes(ToLowerCase(item), KwConclusion)
        THEN summaryHead \o ToLowerCase(title) \o summaryTail
        ELSE IF Includes(ToLowerCase(item), KwQandA)
        THEN questionsHead \o author
        ELSE genericHead \o item \o genericComment \o item \o genericTail

\* LayoutKey is the text "layout:\s"
LayoutKey == <<"l","a","y","o","u","t",":"," ">>
\* DashesLine is the text "---\n"
DashesLine == <<"-","-","-","\n">>
\* DashesBlank is the text "---\n\n"
DashesBlank == <<"-","-","-","\n","\n">>

\* layout === 'default' ? '' : `layout: ${layout}\n`
LayoutConfig(layout) ==
    IF layout = LayoutDefault THEN EmptyText ELSE LayoutKey \o layout \o NewLine

\* the slide pushed for one outline item, tools.ts:119-126
ItemSlide(item, title, author) ==
    DashesLine \o LayoutConfig(ItemLayout(item)) \o DashesBlank
    \o ItemContent(item, title, author) \o SlideTail

\* Mutant: the first outline item is rendered like the others.
createPresentationFromOutline_KeepFirst(title, author, outline, theme) ==
    LET themeName == IF theme.present THEN theme.value ELSE DefaultTheme
        slides == <<TitleSlide(title, author, themeName), createTableOfContents(outline)>>
                  \o [i \in 1..Len(outline) |-> ItemSlide(outline[i], title, author)]
    IN  Join(slides, NewLine)

\* `theme` is the optional fourth parameter, 'seriph' when it is not passed.
createPresentationFromOutline(title, author, outline, theme) ==
    LET rest == SliceFrom(outline, 1)
        themeName == IF theme.present THEN theme.value ELSE DefaultTheme
        slides == <<TitleSlide(title, author, themeName), createTableOfContents(rest)>>
                  \o [i \in 1..Len(rest) |-> ItemSlide(rest[i], title, author)]
    IN  Join(slides, NewLine)

-----------------------------------------------------------------------------
\* src/src/tools.ts: createComparisonSlide, createImageSlide

\* The items are rendered as createTableOfContents renders its topics: `- ${item}`.
\* Mutant: the two lists of items change sides.
createComparisonSlide_SwappedItems(title, leftTitle, leftContent, rightTitle, rightContent) ==
    LET leftItems == Join(Map(rightContent, TocItem), NewLine)
        rightItems == Join(Map(leftContent, TocItem), NewLine)
        \* head is the text "---\nlayout: two-cols\n---\n\n#\s"
        head == <<"-","-","-","\n","l","a","y","o","u","t",":"," ","t","w","o","-","c","o","l",
            "s","\n","-","-","-","\n","\n","#"," ">>
        \* left is the text "\n\n::left::\n\n##\s"
        left == <<"\n","\n",":",":","l","e","f","t",":",":","\n","\n","#","#"," ">>
        \* blank is the text "\n\n"
        blank == <<"\n","\n">>
        \* right is the text "\n\n::right::\n\n##\s"
        right == <<"\n","\n",":",":","r","i","g","h","t",":",":","\n","\n","#","#"," ">>
    IN  head \o title \o left \o leftTitle \o blank \o leftItems
        \o right \o rightTitle \o blank \o rightItems \o SlideTail

createComparisonSlide(title, leftTitle, leftContent, rightTitle, rightContent) ==
    LET leftItems == Join(Map(leftContent, TocItem), NewLine)
        rightItems == Join(Map(rightContent, TocItem), NewLine)
        \* head is the text "---\nlayout: two-cols\n---\n\n#\s"
        head == <<"-","-","-","\n","l","a","y","o","u","t",":"," ","t","w","o","-","c","o","l",
            "s","\n","-","-","-","\n","\n","#"," ">>
        \* left is the text "\n\n::left::\n\n##\s"
        left == <<"\n","\n",":",":","l","e","f","t",":",":","\n","\n","#","#"," ">>
        \* blank is the text "\n\n"
        blank == <<"\n","\n">>
        \* right is the text "\n\n::right::\n\n##\s"
        right == <<"\n","\n",":",":","r","i","g","h","t",":",":","\n","\n","#","#"," ">>
    IN  head \o title \o left \o leftTitle \o blank \o leftItems
        \o right \o rightTitle \o blank \o rightItems \o SlideTail

\* LayoutImage is the text "image"
LayoutImage == <<"i","m","a","g","e">>
\* LayoutImageLeft is the text "image-left"
LayoutImageLeft == <<"i","m","a","g","e","-","l","e","f","t">>
\* LayoutImageRight is the text "image-right"
LayoutImageRight == <<"i","m","a","g","e","-","r","i","g","h","t">>

\* Mutant: the caption follows the title without the blank line.
createImageSlide_CaptionOnHeading(title, imagePath, caption, layout) ==
    LET
        \* star is the text "*"
        star == <<"*">>
        \* blank is the text "\n\n"
        blank == <<"\n","\n">>
        \* imageHead is the text "---\nlayout: image\nimage:\s"
        imageHead == <<"-","-","-","\n","l","a","y","o","u","t",":"," ","i","m","a","g","e","\n",
            "i","m","a","g","e",":"," ">>
        \* layoutHead is the text "---\nlayout:\s"
        layoutHead == <<"-","-","-","\n","l","a","y","o","u","t",":"," ">>
        \* imageKey is the text "\nimage:\s"
        imageKey == <<"\n","i","m","a","g","e",":"," ">>
        \* heading is the text "\n---\n\n#\s"
        heading == <<"\n","-","-","-","\n","\n","#"," ">>
        captionText ==
            IF caption.present /\ Truthy(caption.value)
            THEN star \o caption.value \o star
            ELSE EmptyText
        chosen == IF layout.present THEN layout.value ELSE LayoutImage
    IN  IF chosen = LayoutImage
        THEN imageHead \o imagePath \o heading \o title \o captionText \o SlideTail
        ELSE layoutHead \o chosen \o imageKey \o imagePath \o heading \o title
             \o blank \o captionText \o SlideTail

\* `caption?` is absent or a text; `layout` is absent (then 'image') or one of
\* the three image layouts.
createImageSlide(title, imagePath, caption, layout) ==
    LET
        \* star is the text "*"
        star == <<"*">>
        \* blank is the text "\n\n"
        blank == <<"\n","\n">>
        \* imageHead is the text "---\nlayout: image\nimage:\s"
        imageHead == <<"-","-","-","\n","l","a","y","o","u","t",":"," ","i","m","a","g","e","\n",
            "i","m","a","g","e",":"," ">>
        \* layoutHead is the text "---\nlayout:\s"
        layoutHead == <<"-","-","-","\n","l","a","y","o","u","t",":"," ">>
        \* imageKey is the text "\nimage:\s"
        imageKey == <<"\n","i","m","a","g","e",":"," ">>
        \* heading is the text "\n---\n\n#\s"
        heading == <<"\n","-","-","-","\n","\n","#"," ">>
        captionText ==
            IF caption.present /\ Truthy(caption.value)
            THEN blank \o star \o caption.value \o star
            ELSE EmptyText
        chosen == IF layout.present THEN layout.value ELSE LayoutImage
    IN  IF chosen = LayoutImage
        THEN imageHead \o imagePath \o heading \o title \o captionText \o SlideTail
        ELSE layoutHead \o chosen \o imageKey \o imagePath \o heading \o title
             \o blank \o captionText \o SlideTail

\* formatCodeBlock(code, language = 'javascript'): language is absent or a text
formatCodeBlock(code, language) ==
    LET
        \* fence is the text of three backquote characters
        fence == <<"BACKQUOTE", "BACKQUOTE", "BACKQUOTE">>
        \* javascript is the text "javascript"
        javascript == <<"j","a","v","a","s","c","r","i","p","t">>
    IN  fence \o (IF language.present THEN language.value ELSE javascript) \o NewLine
        \o code \o NewLine \o fence

-----------------------------------------------------------------------------
\* src/src/index.ts: recommendTheme

\* KwAcademic is the text "academic"
KwAcademic == <<"a","c","a","d","e","m","i","c">>
\* KwResearch is the text "research"
KwResearch == <<"r","e","s","e","a","r","c","h">>
\* KwTech is the text "tech"
KwTech == <<"t","e","c","h">>
\* KwProgramming is the text "programming"
KwProgramming == <<"p","r","o","g","r","a","m","m","i","n","g">>
\* KwDevelopment is the text "development"
KwDevelopment == <<"d","e","v","e","l","o","p","m","e","n","t">>
\* KwCreative is the text "creative"
KwCreative == <<"c","r","e","a","t","i","v","e">>
\* KwFun is the text "fun"
KwFun == <<"f","u","n">>
\* KwFormal is the text "formal"
KwFormal == <<"f","o","r","m","a","l">>
\* KwBusiness is the text "business"
KwBusiness == <<"b","u","s","i","n","e","s","s">>
\* KwCasual is the text "casual"
KwCasual == <<"c","a","s","u","a","l">>
\* KwFriendly is the text "friendly"
KwFriendly == <<"f","r","i","e","n","d","l","y">>
\* ThemeAcademic is the text "academic"
ThemeAcademic == <<"a","c","a","d","e","m","i","c">>
\* ThemeAppleBasic is the text "apple-basic"
ThemeAppleBasic == <<"a","p","p","l","e","-","b","a","s","i","c">>
\* ThemeBricks is the text "bricks"
ThemeBricks == <<"b","r","i","c","k","s">>
\* ThemeLight is the text "light"
ThemeLight == <<"l","i","g","h","t">>
\* ThemePenguin is the text "penguin"
ThemePenguin == <<"p","e","n","g","u","i","n">>
\* ThemeSeriph is the text "seriph"
ThemeSeriph == <<"s","e","r","i","p","h">>

\* style?.toLowerCase() || ''
StyleLower(style) == IF style.present THEN ToLowerCase(style.value) ELSE EmptyText

\* The keywords each `if` of recommendTheme tests, in source order: those tested
\* against the style text and those tested against the topic text.
ThemeRules ==
    << [theme |-> ThemeAcademic, style |-> {KwAcademic, KwResearch}, topic |-> {KwResearch}],
       [theme |-> ThemeAppleBasic, style |-> {KwTech},
        topic |-> {KwTech, KwProgramming, KwDevelopment}],
       [theme |-> ThemeBricks, style |-> {KwCreative, KwFun}, topic |-> {KwCreative}],
       [theme |-> ThemeLight, style |-> {KwFormal, KwBusiness}, topic |-> {KwBusiness}],
       [theme |-> ThemePenguin, style |-> {KwCasual, KwFriendly}, topic |-> {}] >>

\* Mutant: the formal/business rule is tested before the creative/fun rule.
recommendTheme_LightBeforeBricks(topic, style) ==
    LET topicLower == ToLowerCase(topic)
        styleLower == StyleLower(style)
    IN  IF \/ Includes(styleLower, KwAcademic)
           \/ Includes(styleLower, KwResearch)
           \/ Includes(topicLower, KwResearch)
        THEN ThemeAcademic
        ELSE IF \/ Includes(styleLower, KwTech)
                \/ Includes(topicLower, KwTech)
                \/ Includes(topicLower, KwProgramming)
                \/ Includes(topicLower, KwDevelopment)
        THEN ThemeAppleBasic
        ELSE IF \/ Includes(styleLower, KwFormal)
                \/ Includes(styleLower, KwBusiness)
                \/ Includes(topicLower, KwBusiness)
        THEN ThemeLight
        ELSE IF \/ Includes(styleLower, KwCreative)
                \/ Includes(styleLower, KwFun)
                \/ Includes(topicLower, KwCreative)
        THEN ThemeBricks
        ELSE IF Includes(styleLower, KwCasual) \/ Includes(styleLower, KwFriendly)
        THEN ThemePenguin
        ELSE ThemeSeriph

\* Mutant: the academic rule also looks for 'academic' in the topic.
recommendTheme_AcademicTopic(topic, style) ==
    LET topicLower == ToLowerCase(topic)
        styleLower == StyleLower(style)
    IN  IF \/ Includes(styleLower, KwAcademic)
           \/ Includes(styleLower, KwResearch)
           \/ Includes(topicLower, KwAcademic)
           \/ Includes(topicLower, KwResearch)
        THEN ThemeAcademic
        ELSE IF \/ Includes(styleLower, KwTech)
                \/ Includes(topicLower, KwTech)
                \/ Includes(topicLower, KwProgramming)
                \/ Includes(topicLower, KwDevelopment)
        THEN ThemeAppleBasic
        ELSE IF \/ Includes(styleLower, KwCreative)
                \/ Includes(styleLower, KwFun)
                \/ Includes(topicLower, KwCreative)
        THEN ThemeBricks
        ELSE IF \/ Includes(styleLower, KwFormal)
                \/ Includes(styleLower, KwBusiness)
                \/ Includes(topicLower, KwBusiness)
        THEN ThemeLight
        ELSE IF Includes(styleLower, KwCasual) \/ Includes(styleLower, KwFriendly)
        THEN ThemePenguin
        ELSE ThemeSeriph

recommendTheme(topic, style) ==
    LET topicLower == ToLowerCase(topic)
        styleLower == StyleLower(style)
    IN  IF \/ Includes(styleLower, KwAcademic)
           \/ Includes(styleLower, KwResearch)
           \/ Includes(topicLower, KwResearch)
        THEN ThemeAcademic
        ELSE IF \/ Includes(styleLower, KwTech)
                \/ Includes(topicLower, KwTech)
                \/ Includes(topicLower, KwProgramming)
                \/ Includes(topicLower, KwDevelopment)
        THEN ThemeAppleBasic
        ELSE IF \/ Includes(styleLower, KwCreative)
                \/ Includes(styleLower, KwFun)
                \/ Includes(topicLower, KwCreative)
        THEN ThemeBricks
        ELSE IF \/ Includes(styleLower, KwFormal)
                \/ Includes(styleLower, KwBusiness)
                \/ Includes(topicLower, KwBusiness)
        THEN ThemeLight
        ELSE IF Includes(styleLower, KwCasual) \/ Includes(styleLower, KwFriendly)
        THEN ThemePenguin
        ELSE ThemeSeriph

-----------------------------------------------------------------------------
\* src/src/index.ts: recommendLayout

\* Mutant: the image rule returns its keyword 'picture' as the layout.
recommendLayout_PictureLayout(description) ==
    LET descLower == ToLowerCase(description)
        \* kwComparison is the text "comparison"
        kwComparison == <<"c","o","m","p","a","r","i","s","o","n">>
        \* kwVs is the text "vs"
        kwVs == <<"v","s">>
        \* kwVersus is the text "versus"
        kwVersus == <<"v","e","r","s","u","s">>
        \* kwQuote is the text "quote"
        kwQuote == <<"q","u","o","t","e">>
        \* kwSaying is the text "saying"
        kwSaying == <<"s","a","y","i","n","g">>
        \* kwImage is the text "image"
        kwImage == <<"i","m","a","g","e">>
        \* kwPicture is the text "picture"
        kwPicture == <<"p","i","c","t","u","r","e">>
        \* kwPhoto is the text "photo"
        kwPhoto == <<"p","h","o","t","o">>
        \* kwCenter is the text "center"
        kwCenter == <<"c","e","n","t","e","r">>
        \* kwFocus is the text "focus"
        kwFocus == <<"f","o","c","u","s">>
        \* kwIntro is the text "intro"
        kwIntro == <<"i","n","t","r","o">>
        \* kwIntroduction is the text "introduction"
        kwIntroduction == <<"i","n","t","r","o","d","u","c","t","i","o","n">>
        \* kwEnd is the text "end"
        kwEnd == <<"e","n","d">>
        \* kwConclusion is the text "conclusion"
        kwConclusion == <<"c","o","n","c","l","u","s","i","o","n">>
        \* kwThank is the text "thank"
        kwThank == <<"t","h","a","n","k">>
        \* layoutTwoCols is the text "two-cols"
        layoutTwoCols == <<"t","w","o","-","c","o","l","s">>
        \* layoutQuote is the text "quote"
        layoutQuote == <<"q","u","o","t","e">>
        \* layoutImage is the text "image"
        layoutImage == <<"i","m","a","g","e">>
        \* layoutCenter is the text "center"
        layoutCenter == <<"c","e","n","t","e","r">>
    IN  IF \/ Includes(descLower, kwComparison)
           \/ Includes(descLower, kwVs)
           \/ Includes(descLower, kwVersus)
        THEN layoutTwoCols
        ELSE IF Includes(descLower, kwQuote) \/ Includes(descLower, kwSaying)
        THEN layoutQuote
        ELSE IF \/ Includes(descLower, kwImage)
                \/ Includes(descLower, kwPicture)
                \/ Includes(descLower, kwPhoto)
        THEN kwPicture
        ELSE IF Includes(descLower, kwCenter) \/ Includes(descLower, kwFocus)
        THEN layoutCenter
        ELSE IF Includes(descLower, kwIntro) \/ Includes(descLower, kwIntroduction)
        THEN LayoutIntro
        ELSE IF \/ Includes(descLower, kwEnd)
                \/ Includes(descLower, kwConclusion)
                \/ Includes(descLower, kwThank)
        THEN LayoutEnd
        ELSE LayoutDefault

\* Mutant: the center/focus rule is tested before the image rule.
recommendLayout_CenterBeforeImage(description) ==
    LET descLower == ToLowerCase(description)
        \* kwComparison is the text "comparison"
        kwComparison == <<"c","o","m","p","a","r","i","s","o","n">>
        \* kwVs is the text "vs"
        kwVs == <<"v","s">>
        \* kwVersus is the text "versus"
        kwVersus == <<"v","e","r","s","u","s">>
        \* kwQuote is the text "quote"
        kwQuote == <<"q","u","o","t","e">>
        \* kwSaying is the text "saying"
        kwSaying == <<"s","a","y","i","n","g">>
        \* kwImage is the text "image"
        kwImage == <<"i","m","a","g","e">>
        \* kwPicture is the text "picture"
        kwPicture == <<"p","i","c","t","u","r","e">>
        \* kwPhoto is the text "photo"
        kwPhoto == <<"p","h","o","t","o">>
        \* kwCenter is the text "center"
        kwCenter == <<"c","e","n","t","e","r">>
        \* kwFocus is the text "focus"
        kwFocus == <<"f","o","c","u","s">>
        \* kwIntro is the text "intro"
        kwIntro == <<"i","n","t","r","o">>
        \* kwIntroduction is the text "introduction"
        kwIntroduction == <<"i","n","t","r","o","d","u","c","t","i","o","n">>
        \* kwEnd is the text "end"
        kwEnd == <<"e","n","d">>
        \* kwConclusion is the text "conclusion"
        kwConclusion == <<"c","o","n","c","l","u","s","i","o","n">>
        \* kwThank is the text "thank"
        kwThank == <<"t","h","a","n","k">>
        \* layoutTwoCols is the text "two-cols"
        layoutTwoCols == <<"t","w","o","-","c","o","l","s">>
        \* layoutQuote is the text "quote"
        layoutQuote == <<"q","u","o","t","e">>
        \* layoutImage is the text "image"
        layoutImage == <<"i","m","a","g","e">>
        \* layoutCenter is the text "center"
        layoutCenter == <<"c","e","n","t","e","r">>
    IN  IF \/ Includes(descLower, kwComparison)
           \/ Includes(descLower, kwVs)
           \/ Includes(descLower, kwVersus)
        THEN layoutTwoCols
        ELSE IF Includes(descLower, kwQuote) \/ Includes(descLower, kwSaying)
        THEN layoutQuote
        ELSE IF Includes(descLower, kwCenter) \/ Includes(descLower, kwFocus)
        THEN layoutCenter
        ELSE IF \/ Includes(descLower, kwImage)
                \/ Includes(descLower, kwPicture)
                \/ Includes(descLower, kwPhoto)
        THEN layoutImage
        ELSE IF Includes(descLower, kwIntro) \/ Includes(descLower, kwIntroduction)
        THEN LayoutIntro
        ELSE IF \/ Includes(descLower, kwEnd)
                \/ Includes(descLower, kwConclusion)
                \/ Includes(descLower, kwThank)
        THEN LayoutEnd
        ELSE LayoutDefault

recommendLayout(description) ==
    LET descLower == ToLowerCase(description)
        \* kwComparison is the text "comparison"
        kwComparison == <<"c","o","m","p","a","r","i","s","o","n">>
        \* kwVs is the text "vs"
        kwVs == <<"v","s">>
        \* kwVersus is the text "versus"
        kwVersus == <<"v","e","r","s","u","s">>
        \* kwQuote is the text "quote"
        kwQuote == <<"q","u","o","t","e">>
        \* kwSaying is the text "saying"
        kwSaying == <<"s","a","y","i","n","g">>
        \* kwImage is the text "image"
        kwImage == <<"i","m","a","g","e">>
        \* kwPicture is the text "picture"
        kwPicture == <<"p","i","c","t","u","r","e">>
        \* kwPhoto is the text "photo"
        kwPhoto == <<"p","h","o","t","o">>
        \* kwCenter is the text "center"
        kwCenter == <<"c","e","n","t","e","r">>
        \* kwFocus is the text "focus"
        kwFocus == <<"f","o","c","u","s">>
        \* kwIntro is the text "intro"
        kwIntro == <<"i","n","t","r","o">>
        \* kwIntroduction is the text "introduction"
        kwIntroduction == <<"i","n","t","r","o","d","u","c","t","i","o","n">>
        \* kwEnd is the text "end"
        kwEnd == <<"e","n","d">>
        \* kwConclusion is the text "conclusion"
        kwConclusion == <<"c","o","n","c","l","u","s","i","o","n">>
        \* kwThank is the text "thank"
        kwThank == <<"t","h","a","n","k">>
        \* layoutTwoCols is the text "two-cols"
        layoutTwoCols == <<"t","w","o","-","c","o","l","s">>
        \* layoutQuote is the text "quote"
        layoutQuote == <<"q","u","o","t","e">>
        \* layoutImage is the text "image"
        layoutImage == <<"i","m","a","g","e">>
        \* layoutCenter is the text "center"
        layoutCenter == <<"c","e","n","t","e","r">>
    IN  IF \/ Includes(descLower, kwComparison)
           \/ Includes(descLower, kwVs)
           \/ Includes(descLower, kwVersus)
        THEN layoutTwoCols
        ELSE IF Includes(descLower, kwQuote) \/ Includes(descLower, kwSaying)
        THEN layoutQuote
        ELSE IF \/ Includes(descLower, kwImage)
                \/ Includes(descLower, kwPicture)
                \/ Includes(descLower, kwPhoto)
        THEN layoutImage
        ELSE IF Includes(descLower, kwCenter) \/ Includes(descLower, kwFocus)
        THEN layoutCenter
        ELSE IF Includes(descLower, kwIntro) \/ Includes(descLower, kwIntroduction)
        THEN LayoutIntro
        ELSE IF \/ Includes(descLower, kwEnd)
                \/ Includes(descLower, kwConclusion)
                \/ Includes(descLower, kwThank)
        THEN LayoutEnd
        ELSE LayoutDefault

-----------------------------------------------------------------------------
\* src/unnamed/part_002: the catalogs of layouts and themes

SLIDEV_LAYOUTS ==
    LET
        \* center is the text "center"
        center == <<"c","e","n","t","e","r">>
        \* cover is the text "cover"
        cover == <<"c","o","v","e","r">>
        \* fact is the text "fact"
        fact == <<"f","a","c","t">>
        \* full is the text "full"
        full == <<"f","u","l","l">>
        \* image is the text "image"
        image == <<"i","m","a","g","e">>
        \* imageLeft is the text "image-left"
        imageLeft == <<"i","m","a","g","e","-","l","e","f","t">>
        \* imageRight is the text "image-right"
        imageRight == <<"i","m","a","g","e","-","r","i","g","h","t">>
        \* iframe is the text "iframe"
        iframe == <<"i","f","r","a","m","e">>
        \* iframeLeft is the text "iframe-left"
        iframeLeft == <<"i","f","r","a","m","e","-","l","e","f","t">>
        \* iframeRight is the text "iframe-right"
        iframeRight == <<"i","f","r","a","m","e","-","r","i","g","h","t">>
        \* none is the text "none"
        none == <<"n","o","n","e">>
        \* quote is the text "quote"
        quote == <<"q","u","o","t","e">>
        \* section is the text "section"
        section == <<"s","e","c","t","i","o","n">>
        \* twoCols is the text "two-cols"
        twoCols == <<"t","w","o","-","c","o","l","s">>
        \* twoColsHeader is the text "two-cols-header"
        twoColsHeader == <<"t","w","o","-","c","o","l","s","-","h","e","a","d","e","r">>
    IN  <<LayoutDefault, center, cover, LayoutEnd, fact, full, image, imageLeft, imageRight,
          iframe, iframeLeft, iframeRight, LayoutIntro, none, quote, section,
          LayoutStatement, twoCols, twoColsHeader>>

SLIDEV_THEMES ==
    LET
        \* default is the text "default"
        default == <<"d","e","f","a","u","l","t">>
        \* eloc is the text "eloc"
        eloc == <<"e","l","o","c">>
        \* shibainu is the text "shibainu"
        shibainu == <<"s","h","i","b","a","i","n","u">>
    IN  <<ThemeSeriph, default, ThemeAppleBasic, ThemeBricks, ThemeLight, ThemeAcademic,
          eloc, ThemePenguin, shibainu>>

-----------------------------------------------------------------------------
\* src/src/index.ts: the CallTool request handler

\* A JavaScript value of an argument bag: a string, a number, or absent.
Str(t) == [present |-> TRUE, type |-> "string", value |-> t]

Num(n) == [present |-> TRUE, type |-> "number", number |-> n]

IsString(v) == v.present /\ v.type = "string"

IsNumber(v) == v.present /\ v.type = "number"

\* z.string().optional(), z.number().optional()
IsOptionalString(v) == ~v.present \/ IsString(v)

IsOptionalNumber(v) == ~v.present \/ IsNumber(v)

\* the argument bag {} of index.ts:463, 467, 471, 477
NoArguments ==
    [topic |-> Undefined, author |-> Undefined, duration |-> Undefined,
     theme |-> Undefined, outputPath |-> Undefined, style |-> Undefined]

\* parsedArgs of index.ts:453-478: an object is kept, a string holding the JSON of
\* an object is parsed, anything else becomes {}.
ParsedArgs(args) ==
    IF args.kind \in {"object", "json"} THEN args.fields ELSE NoArguments

\* GeneratePresentationSchema.safeParse(parsedArgs).success
GeneratePresentationSchemaOk(a) ==
    /\ IsString(a.topic)
    /\ IsString(a.author)
    /\ IsOptionalNumber(a.duration)
    /\ IsOptionalString(a.theme)
    /\ IsString(a.outputPath)
    /\ IsOptionalString(a.style)

\* Slash is the text "/"
Slash == <<"/">>
\* Dot is the text "."
Dot == <<".">>

\* path.dirname(p) of node:path (posix): the text before the last '/' that is
\* followed by a name, ignoring trailing slashes; '/' or '.' when there is none.
Dirname(p) ==
    LET names == {i \in 2..Len(p) : p[i] # "/"}
        last == CHOOSE i \in names : \A j \in names : j <= i
        cuts == IF names = {} THEN {} ELSE {i \in 2..(last - 1) : p[i] = "/"}
        cut == CHOOSE i \in cuts : \A j \in cuts : j <= i
    IN  IF Len(p) = 0 THEN Dot
        ELSE IF cuts = {} THEN (IF p[1] = "/" THEN Slash ELSE Dot)
        ELSE SubSeq(p, 1, cut - 1)

\* fs.mkdir(dir, { recursive: true }): the directory and its missing ancestors
RECURSIVE MkdirRecursive(_, _)
MkdirRecursive(directories, dir) ==
    IF dir \in {Dot, Slash} \/ dir \in directories THEN directories
    ELSE MkdirRecursive(directories \cup {dir}, Dirname(dir))

\* fs.writeFile(path, content)
WriteFile(files, path, content) ==
    [p \in (DOMAIN files) \cup {path} |-> IF p = path THEN content ELSE files[p]]

\* ValidationErrorsHead is the text "{CROSS_MARK} Validation errors:\n"
ValidationErrorsHead == <<"CROSS_MARK"," ","V","a","l","i","d","a","t","i","o","n"," ","e","r",
    "r","o","r","s",":","\n">>
\* SuccessHead is the text "{PARTY_POPPER} Successfully generated presentation ""
SuccessHead == <<"PARTY_POPPER"," ","S","u","c","c","e","s","s","f","u","l","l","y"," ","g","e",
    "n","e","r","a","t","e","d"," ","p","r","e","s","e","n","t","a","t","i","o","n"," ","\"">>
\* UnknownToolHead is the text "Error: Unknown tool:\s"
UnknownToolHead == <<"E","r","r","o","r",":"," ","U","n","k","n","o","w","n"," ","t","o","o","l",
    ":"," ">>
\* GeneratePresentationName is the text "generate-presentation"
GeneratePresentationName == <<"g","e","n","e","r","a","t","e","-","p","r","e","s","e","n","t","a",
    "t","i","o","n">>

\* the response of index.ts:844-852
InvalidArgumentsResponse ==
    LET
        \* text is the text "{CROSS_MARK} Invalid arguments for generate-presentation:\n{ZOD_ISSUES_JSON}\n\nExpected:\n- topic (string): Main topic\n- author (string): Author name\n- outputPath (string): Where to save\n- duration (number, optional): Duration in minutes\n- theme (string, optional): Theme name"
        text == <<"CROSS_MARK"," ","I","n","v","a","l","i","d"," ","a","r","g","u","m","e","n",
            "t","s"," ","f","o","r"," ","g","e","n","e","r","a","t","e","-","p","r","e","s","e",
            "n","t","a","t","i","o","n",":","\n","ZOD_ISSUES_JSON","\n","\n","E","x","p","e","c",
            "t","e","d",":","\n","-"," ","t","o","p","i","c"," ","(","s","t","r","i","n","g",")",
            ":"," ","M","a","i","n"," ","t","o","p","i","c","\n","-"," ","a","u","t","h","o","r",
            " ","(","s","t","r","i","n","g",")",":"," ","A","u","t","h","o","r"," ","n","a","m",
            "e","\n","-"," ","o","u","t","p","u","t","P","a","t","h"," ","(","s","t","r","i","n",
            "g",")",":"," ","W","h","e","r","e"," ","t","o"," ","s","a","v","e","\n","-"," ","d",
            "u","r","a","t","i","o","n"," ","(","n","u","m","b","e","r",","," ","o","p","t","i",
            "o","n","a","l",")",":"," ","D","u","r","a","t","i","o","n"," ","i","n"," ","m","i",
            "n","u","t","e","s","\n","-"," ","t","h","e","m","e"," ","(","s","t","r","i","n","g",
            ","," ","o","p","t","i","o","n","a","l",")",":"," ","T","h","e","m","e"," ","n","a",
            "m","e">>
    IN  [text |-> text, isError |-> Some(TRUE)]

\* the response of index.ts:882-889
ValidationErrorsResponse(errors) ==
    [text |-> ValidationErrorsHead \o Join(errors, NewLine), isError |-> Undefined]

\* the response of the inner catch, index.ts:911-920
ErrorGeneratingResponse ==
    LET
        \* text is the text "{CROSS_MARK} Error generating presentation: {FS_ERROR}"
        text == <<"CROSS_MARK"," ","E","r","r","o","r"," ","g","e","n","e","r","a","t","i","n",
            "g"," ","p","r","e","s","e","n","t","a","t","i","o","n",":"," ","FS_ERROR">>
    IN  [text |-> text, isError |-> Undefined]

\* the response of index.ts:898-909
SuccessResponse(topic, outline, outputPath, selectedTheme, style, duration) ==
    LET
        \* with is the text "" with\s"
        with == <<"\""," ","w","i","t","h"," ">>
        \* slidesAt is the text " slides at\s"
        slidesAt == <<" ","s","l","i","d","e","s"," ","a","t"," ">>
        \* themeLine is the text "\n\n{ARTIST_PALETTE} Selected theme:\s"
        themeLine == <<"\n","\n","ARTIST_PALETTE"," ","S","e","l","e","c","t","e","d"," ","t","h",
            "e","m","e",":"," ">>
        \* basedOn is the text "\n{LIGHT_BULB} Theme selected based on:\s"
        basedOn == <<"\n","LIGHT_BULB"," ","T","h","e","m","e"," ","s","e","l","e","c","t","e",
            "d"," ","b","a","s","e","d"," ","o","n",":"," ">>
        \* stylePreference is the text "style preference ("
        stylePreference == <<"s","t","y","l","e"," ","p","r","e","f","e","r","e","n","c","e"," ",
            "(">>
        \* closeParen is the text ")"
        closeParen == <<")">>
        \* topicAnalysis is the text "topic analysis"
        topicAnalysis == <<"t","o","p","i","c"," ","a","n","a","l","y","s","i","s">>
        \* durationLine is the text "\n{STOPWATCH}  Duration:\s"
        durationLine == <<"\n","STOPWATCH"," "," ","D","u","r","a","t","i","o","n",":"," ">>
        \* minutes is the text " minutes"
        minutes == <<" ","m","i","n","u","t","e","s">>
    IN  [text |-> SuccessHead \o topic \o with \o IntToText(Len(outline))
                  \o slidesAt \o outputPath \o themeLine \o selectedTheme
                  \o basedOn
                  \o (IF style.present /\ Truthy(style.value)
                      THEN stylePreference \o style.value \o closeParen
                      ELSE topicAnalysis)
                  \o durationLine \o IntToText(duration) \o minutes,
         isError |-> Undefined]

\* Mutant: the unknown-tool response carries no error flag.
UnknownToolResponse_NoFlag(name) ==
    [text |-> UnknownToolHead \o name, isError |-> Undefined]

\* the response of the outer catch for the default case, index.ts:1032-1042
UnknownToolResponse(name) ==
    [text |-> UnknownToolHead \o name, isError |-> Some(TRUE)]

\* Mutant: the theme is recommended whatever theme the caller supplies.
SelectedTheme_AlwaysRecommended(theme, topic, style) == recommendTheme(topic, style)

\* theme || recommendTheme(topic, style), index.ts:864 and index.ts:498
SelectedTheme(theme, topic, style) ==
    IF theme.present /\ Truthy(theme.value) THEN theme.value
    ELSE recommendTheme(topic, style)

\* Mutant: the deck is written before it is validated.
GeneratePresentation_WriteBeforeValidation(a, files, directories, failing) ==
    IF ~GeneratePresentationSchemaOk(a)
    THEN [response |-> InvalidArgumentsResponse, fs |-> files, dirs |-> directories,
          local |-> <<>>]
    ELSE
    LET topic == a.topic.value
        duration == IF a.duration.present THEN a.duration.number ELSE DefaultDuration
        outputPath == a.outputPath.value
        selectedTheme == SelectedTheme(a.theme, topic, a.style)
        outline == generatePresentationOutline(topic, duration)
        presentationContent ==
            createPresentationFromOutline(topic, a.author.value, outline, Some(selectedTheme))
        validation == validateSlideContent(presentationContent)
        made == MkdirRecursive(directories, Dirname(outputPath))
        locals == [selectedTheme |-> selectedTheme, presentationContent |-> presentationContent]
    IN  IF "mkdir" \in failing
        THEN [response |-> ErrorGeneratingResponse, fs |-> files, dirs |-> directories,
              local |-> locals]
        ELSE IF "writeFile" \in failing
        THEN [response |-> ErrorGeneratingResponse, fs |-> files, dirs |-> made,
              local |-> locals]
        ELSE [response |-> IF validation.isValid
                           THEN SuccessResponse(topic, outline, outputPath, selectedTheme,
                                                a.style, duration)
                           ELSE ValidationErrorsResponse(validation.errors),
              fs |-> WriteFile(files, outputPath, presentationContent),
              dirs |-> made, local |-> locals]

\* case 'generate-presentation', index.ts:833-921: the response and the disk
\* the handler leaves, `failing` the filesystem operations that reject.
GeneratePresentation(a, files, directories, failing) ==
    IF ~GeneratePresentationSchemaOk(a)
    THEN [response |-> InvalidArgumentsResponse, fs |-> files, dirs |-> directories,
          local |-> <<>>]
    ELSE
    LET topic == a.topic.value
        author == a.author.value
        duration == IF a.duration.present THEN a.duration.number ELSE DefaultDuration
        outputPath == a.outputPath.value
        selectedTheme == SelectedTheme(a.theme, topic, a.style)
        outline == generatePresentationOutline(topic, duration)
        presentationContent ==
            createPresentationFromOutline(topic, author, outline, Some(selectedTheme))
        validation == validateSlideContent(presentationContent)
        made == MkdirRecursive(directories, Dirname(outputPath))
        locals == [selectedTheme |-> selectedTheme, presentationContent |-> presentationContent]
    IN  IF ~validation.isValid
        THEN [response |-> ValidationErrorsResponse(validation.errors),
              fs |-> files, dirs |-> directories, local |-> locals]
        ELSE IF "mkdir" \in failing
        THEN [response |-> ErrorGeneratingResponse, fs |-> files, dirs |-> directories,
              local |-> locals]
        ELSE IF "writeFile" \in failing
        THEN [response |-> ErrorGeneratingResponse, fs |-> files, dirs |-> made,
              local |-> locals]
        ELSE [response |-> SuccessResponse(topic, outline, outputPath, selectedTheme,
                                           a.style, duration),
              fs |-> WriteFile(files, outputPath, presentationContent),
              dirs |-> made, local |-> locals]

-----------------------------------------------------------------------------
\* src/src/index.ts: the other cases of the CallTool request handler

\* parsedArgs[field]: a property the object does not have reads as undefined
Arg(a, field) == IF field \in DOMAIN a THEN a[field] ELSE Undefined

\* A boolean argument and an argument that is an array of strings
Bool(b) == [present |-> TRUE, type |-> "boolean", bool |-> b]

List(items) == [present |-> TRUE, type |-> "array", items |-> items]

\* z.array(z.string()): the model's arrays hold texts only
IsStringArray(v) == v.present /\ v.type = "array"

\* z.boolean().optional()
IsOptionalBoolean(v) == ~v.present \/ v.type = "boolean"

\* an optional string argument as the optional text the functions take
Optional(v) == IF v.present THEN Some(v.value) ELSE Undefined

\* `throw new Error('Invalid arguments for <tool>: ...')` caught by the outer
\* catch, index.ts:1036-1042
InvalidArgumentsError(name) ==
    LET
        \* head is the text "Error: Invalid arguments for\s"
        head == <<"E","r","r","o","r",":"," ","I","n","v","a","l","i","d"," ","a","r","g","u","m",
            "e","n","t","s"," ","f","o","r"," ">>
        \* issues is the text ": {ZOD_ISSUES_JSON}"
        issues == <<":"," ","ZOD_ISSUES_JSON">>
    IN  [text |-> head \o name \o issues, isError |-> Some(TRUE)]

\* a response of a pure tool: the disk is left as it was
Pure(resp, files, directories) ==
    [response |-> resp, fs |-> files, dirs |-> directories, local |-> <<>>]

\* the names of the cases of the switch, index.ts:480-1001, other than
\* 'generate-presentation'
Tool ==
    LET
        \* createSlidevProjectName is the text "create-slidev-project"
        createSlidevProjectName == <<"c","r","e","a","t","e","-","s","l","i","d","e","v","-","p",
            "r","o","j","e","c","t">>
        \* generateSlideContentName is the text "generate-slide-content"
        generateSlideContentName == <<"g","e","n","e","r","a","t","e","-","s","l","i","d","e","-",
            "c","o","n","t","e","n","t">>
        \* addSlideName is the text "add-slide"
        addSlideName == <<"a","d","d","-","s","l","i","d","e">>
        \* createComparisonName is the text "create-comparison"
        createComparisonName == <<"c","r","e","a","t","e","-","c","o","m","p","a","r","i","s","o",
            "n">>
        \* createImageSlideName is the text "create-image-slide"
        createImageSlideName == <<"c","r","e","a","t","e","-","i","m","a","g","e","-","s","l","i",
            "d","e">>
        \* formatCodeName is the text "format-code"
        formatCodeName == <<"f","o","r","m","a","t","-","c","o","d","e">>
    IN  [createSlidevProject |-> createSlidevProjectName,
         generateSlideContent |-> generateSlideContentName,
         addSlide |-> addSlideName,
         createComparison |-> createComparisonName,
         createImageSlide |-> createImageSlideName,
         formatCode |-> formatCodeName]

\* the names of the tools the ListTools handler announces, index.ts:250-439
RegisteredTools ==
    {Tool.createSlidevProject, Tool.generateSlideContent, Tool.addSlide,
     GeneratePresentationName, Tool.createComparison, Tool.createImageSlide, Tool.formatCode}

\* ---- generate-slide-content

\* Mutant: the layout line is written for every layout, 'default' included.
generateSlideContent_AlwaysLayoutLine(topic, layout, content) ==
    LET
        \* heading is the text "---\n\n#\s"
        heading == <<"-","-","-","\n","\n","#"," ">>
        \* blank is the text "\n\n"
        blank == <<"\n","\n">>
    IN  DashesLine \o LayoutKey \o layout \o NewLine \o heading \o topic \o blank \o content
        \o SlideTail

\* generateSlideContent(topic, layout, content), index.ts:196-212; its
\* layoutConfig is the expression of createPresentationFromOutline
generateSlideContent(topic, layout, content) ==
    LET
        \* heading is the text "---\n\n#\s"
        heading == <<"-","-","-","\n","\n","#"," ">>
        \* blank is the text "\n\n"
        blank == <<"\n","\n">>
    IN  DashesLine \o LayoutConfig(layout) \o heading \o topic \o blank \o content \o SlideTail

\* `content` of index.ts:707-756 for the selected layout
SlideBody(selectedLayout, topic, description) ==
    LET
        \* space is the text "\s"
        space == <<" ">>
        \* twoCols is the text "two-cols"
        twoCols == <<"t","w","o","-","c","o","l","s">>
        \* quote is the text "quote"
        quote == <<"q","u","o","t","e">>
        \* keyPoints is the text "\n::left::\n\n## Key Points\n\n-\s"
        keyPoints == <<"\n",":",":","l","e","f","t",":",":","\n","\n","#","#"," ","K","e","y"," ",
            "P","o","i","n","t","s","\n","\n","-"," ">>
        \* details is the text "...\n\n::right::\n\n## Details\n\n- Additional information here\n- Supporting details\n- Examples and use cases\n"
        details == <<".",".",".","\n","\n",":",":","r","i","g","h","t",":",":","\n","\n","#","#",
            " ","D","e","t","a","i","l","s","\n","\n","-"," ","A","d","d","i","t","i","o","n","a",
            "l"," ","i","n","f","o","r","m","a","t","i","o","n"," ","h","e","r","e","\n","-"," ",
            "S","u","p","p","o","r","t","i","n","g"," ","d","e","t","a","i","l","s","\n","-"," ",
            "E","x","a","m","p","l","e","s"," ","a","n","d"," ","u","s","e"," ","c","a","s","e",
            "s","\n">>
        \* subHeading is the text "\n##\s"
        subHeading == <<"\n","#","#"," ">>
        \* blank is the text "\n\n"
        blank == <<"\n","\n">>
        \* highlights is the text "\n\nKey highlights:\n- Main point 1\n- Main point 2\n- Main point 3\n"
        highlights == <<"\n","\n","K","e","y"," ","h","i","g","h","l","i","g","h","t","s",":",
            "\n","-"," ","M","a","i","n"," ","p","o","i","n","t"," ","1","\n","-"," ","M","a","i",
            "n"," ","p","o","i","n","t"," ","2","\n","-"," ","M","a","i","n"," ","p","o","i","n",
            "t"," ","3","\n">>
        \* openQuote is the text "\n> ""
        openQuote == <<"\n",">"," ","\"">>
        \* closeQuote is the text ""\n\n*- Author Name*\n"
        closeQuote == <<"\"","\n","\n","*","-"," ","A","u","t","h","o","r"," ","N","a","m","e",
            "*","\n">>
        \* overview is the text "\n## Overview\n\n"
        overview == <<"\n","#","#"," ","O","v","e","r","v","i","e","w","\n","\n">>
        \* points is the text "\n\n## Key Points\n\n- Point 1 based on description\n- Point 2 derived from content\n- Point 3 summarizing main idea\n"
        points == <<"\n","\n","#","#"," ","K","e","y"," ","P","o","i","n","t","s","\n","\n","-",
            " ","P","o","i","n","t"," ","1"," ","b","a","s","e","d"," ","o","n"," ","d","e","s",
            "c","r","i","p","t","i","o","n","\n","-"," ","P","o","i","n","t"," ","2"," ","d","e",
            "r","i","v","e","d"," ","f","r","o","m"," ","c","o","n","t","e","n","t","\n","-"," ",
            "P","o","i","n","t"," ","3"," ","s","u","m","m","a","r","i","z","i","n","g"," ","m",
            "a","i","n"," ","i","d","e","a","\n">>
    IN  IF selectedLayout = twoCols
        THEN keyPoints \o Join(SliceTo(Split(description, space), 10), space) \o details
        ELSE IF selectedLayout \in {LayoutImageLeft, LayoutImageRight}
        THEN subHeading \o topic \o blank \o description \o highlights
        ELSE IF selectedLayout = quote
        THEN openQuote \o description \o closeQuote
        ELSE overview \o description \o points

GenerateSlideContentSchemaOk(a) ==
    /\ IsString(Arg(a, "topic"))
    /\ IsString(Arg(a, "description"))
    /\ IsOptionalString(Arg(a, "layout"))
    /\ IsOptionalString(Arg(a, "style"))

\* layout || recommendLayout(description), index.ts:701
SelectedLayout(layout, description) ==
    IF layout.present /\ Truthy(layout.value) THEN layout.value
    ELSE recommendLayout(description)

\* case 'generate-slide-content', index.ts:692-789
GenerateSlideContent(a, files, directories) ==
    IF ~GenerateSlideContentSchemaOk(a)
    THEN Pure(InvalidArgumentsError(Tool.generateSlideContent), files, directories)
    ELSE
    LET topic == a.topic.value
        description == a.description.value
        selectedLayout == SelectedLayout(Arg(a, "layout"), description)
        slideContent ==
            generateSlideContent(topic, selectedLayout,
                                 SlideBody(selectedLayout, topic, description))
        \* recommended is the text "\n\n{LIGHT_BULB} Recommended layout:\s"
        recommended == <<"\n","\n","LIGHT_BULB"," ","R","e","c","o","m","m","e","n","d","e","d",
            " ","l","a","y","o","u","t",":"," ">>
        \* basedOn is the text "\n{DIRECT_HIT} Layout selected based on: content analysis"
        basedOn == <<"\n","DIRECT_HIT"," ","L","a","y","o","u","t"," ","s","e","l","e","c","t",
            "e","d"," ","b","a","s","e","d"," ","o","n",":"," ","c","o","n","t","e","n","t"," ",
            "a","n","a","l","y","s","i","s">>
    IN  Pure([text |-> slideContent \o recommended \o selectedLayout \o basedOn,
              isError |-> Undefined], files, directories)

\* ---- create-comparison, create-image-slide, format-code

CreateComparisonSchemaOk(a) ==
    /\ IsString(Arg(a, "title"))
    /\ IsString(Arg(a, "leftTitle"))
    /\ IsStringArray(Arg(a, "leftContent"))
    /\ IsString(Arg(a, "rightTitle"))
    /\ IsStringArray(Arg(a, "rightContent"))

\* case 'create-comparison', index.ts:923-961
CreateComparison(a, files, directories) ==
    IF ~CreateComparisonSchemaOk(a)
    THEN Pure(InvalidArgumentsError(Tool.createComparison), files, directories)
    ELSE Pure([text |-> createComparisonSlide(a.title.value, a.leftTitle.value,
                                              a.leftContent.items, a.rightTitle.value,
                                              a.rightContent.items),
               isError |-> Undefined], files, directories)

\* z.enum(['image', 'image-left', 'image-right']).optional()
IsOptionalImageLayout(v) ==
    ~v.present \/ (IsString(v) /\ v.value \in {LayoutImage, LayoutImageLeft, LayoutImageRight})

CreateImageSlideSchemaOk(a) ==
    /\ IsString(Arg(a, "title"))
    /\ IsString(Arg(a, "imagePath"))
    /\ IsOptionalString(Arg(a, "caption"))
    /\ IsOptionalImageLayout(Arg(a, "layout"))

\* case 'create-image-slide', index.ts:963-999
CreateImageSlide(a, files, directories) ==
    IF ~CreateImageSlideSchemaOk(a)
    THEN Pure(InvalidArgumentsError(Tool.createImageSlide), files, directories)
    ELSE Pure([text |-> createImageSlide(a.title.value, a.imagePath.value,
                                         Optional(Arg(a, "caption")),
                                         Optional(Arg(a, "layout"))),
               isError |-> Undefined], files, directories)

FormatCodeSchemaOk(a) ==
    IsString(Arg(a, "code")) /\ IsOptionalString(Arg(a, "language"))

\* case 'format-code', index.ts:1001-1030
FormatCode(a, files, directories) ==
    IF ~FormatCodeSchemaOk(a)
    THEN Pure(InvalidArgumentsError(Tool.formatCode), files, directories)
    ELSE Pure([text |-> formatCodeBlock(a.code.value, Optional(Arg(a, "language"))),
               isError |-> Undefined], files, directories)

\* ---- add-slide

AddSlideSchemaOk(a) ==
    /\ IsString(Arg(a, "slidesPath"))
    /\ IsString(Arg(a, "slideContent"))
    /\ IsOptionalNumber(Arg(a, "position"))

\* array.splice(start, 0, item): a negative start counts from the end
Splice(array, start, item) ==
    LET at == IF start < 0 THEN Max2(Len(array) + start, 0) ELSE Min2(start, Len(array))
    IN  SubSeq(array, 1, at) \o <<item>> \o SubSeq(array, at + 1, Len(array))

\* Mutant: the inserted slide replaces the one at its position (delete count 1).
InsertSlide_ReplaceAt(slides, position, slideContent) ==
    IF position.present /\ position.number # 0 /\ position.number < Len(slides)
    THEN LET at == IF position.number < 0 THEN Max2(Len(slides) + position.number, 0)
                   ELSE position.number
         IN  SubSeq(slides, 1, at) \o <<slideContent>> \o SubSeq(slides, at + 2, Len(slides))
    ELSE Append(slides, slideContent)

\* the slides after index.ts:802-807: `position &&` is false for an absent
\* position and for the number 0
InsertSlide(slides, position, slideContent) ==
    IF position.present /\ position.number # 0 /\ position.number < Len(slides)
    THEN Splice(slides, position.number, slideContent)
    ELSE Append(slides, slideContent)

\* the response of index.ts:812-819
AddedSlideResponse(slidesPath) ==
    LET
        \* head is the text "{CHECK_MARK} Successfully added slide to\s"
        head == <<"CHECK_MARK"," ","S","u","c","c","e","s","s","f","u","l","l","y"," ","a","d",
            "d","e","d"," ","s","l","i","d","e"," ","t","o"," ">>
    IN  [text |-> head \o slidesPath, isError |-> Undefined]

\* the response of the inner catch, index.ts:821-830
ErrorAddingSlideResponse ==
    LET
        \* text is the text "{CROSS_MARK} Error adding slide: {FS_ERROR}"
        text == <<"CROSS_MARK"," ","E","r","r","o","r"," ","a","d","d","i","n","g"," ","s","l",
            "i","d","e",":"," ","FS_ERROR">>
    IN  [text |-> text, isError |-> Undefined]

\* case 'add-slide', index.ts:791-831: readFile rejects when the file does not
\* exist or when the operation is among the failing ones.
AddSlide(a, files, directories, failing) ==
    IF ~AddSlideSchemaOk(a)
    THEN Pure(InvalidArgumentsError(Tool.addSlide), files, directories)
    ELSE
    LET slidesPath == a.slidesPath.value
        slides == Split(files[slidesPath], SlideDelimiter)
        newContent ==
            Join(InsertSlide(slides, Arg(a, "position"), a.slideContent.value), SlideDelimiter)
    IN  IF slidesPath \notin DOMAIN files \/ "readFile" \in failing \/ "writeFile" \in failing
        THEN Pure(ErrorAddingSlideResponse, files, directories)
        ELSE [response |-> AddedSlideResponse(slidesPath),
              fs |-> WriteFile(files, slidesPath, newContent),
              dirs |-> directories, local |-> <<>>]

\* ---- create-slidev-project

CreateSlidevProjectSchemaOk(a) ==
    /\ IsString(Arg(a, "title"))
    /\ IsString(Arg(a, "author"))
    /\ IsOptionalString(Arg(a, "theme"))
    /\ IsString(Arg(a, "projectPath"))
    /\ IsOptionalString(Arg(a, "language"))
    /\ IsOptionalBoolean(Arg(a, "useTemplate"))
    /\ IsOptionalString(Arg(a, "style"))

\* path.join(dir, name) for a normalized dir and a relative name
PathJoin(dir, name) ==
    IF Len(dir) = 0 THEN name
    ELSE IF dir[Len(dir)] = "/" THEN dir \o name
    ELSE dir \o Slash \o name

\* s.replace(/\s+/g, '-'): every run of white space becomes one '-'
RECURSIVE DashWhiteSpace(_)
DashWhiteSpace(s) ==
    IF Len(s) = 0 THEN EmptyText
    ELSE IF Head(s) \notin WhiteSpace THEN <<Head(s)>> \o DashWhiteSpace(Tail(s))
    ELSE IF Len(s) > 1 /\ s[2] \in WhiteSpace THEN DashWhiteSpace(Tail(s))
    ELSE <<"-">> \o DashWhiteSpace(Tail(s))

\* title.toLowerCase().replace(/\s+/g, '-')
PackageName(title) == DashWhiteSpace(ToLowerCase(title))

\* JSON.stringify of a string: the text in double quotes, with '"', '\' and the
\* newline escaped
JsonString(s) ==
    LET Escaped(c) ==
            IF c = "\"" THEN <<"\\", "\"">>
            ELSE IF c = "\\" THEN <<"\\", "\\">>
            ELSE IF c = "\n" THEN <<"\\", "n">>
            ELSE <<c>>
        parts == [i \in 1..Len(s) |-> Escaped(s[i])]
    IN  <<"\"">> \o Join(parts, EmptyText) \o <<"\"">>

\* JSON.stringify(packageJson, null, 2), index.ts:584-603
PackageJson(title, author) ==
    LET
        \* name is the text "{\n  "name":\s"
        name == <<"{","\n"," "," ","\"","n","a","m","e","\"",":"," ">>
        \* presentation is the text "Presentation:\s"
        presentation == <<"P","r","e","s","e","n","t","a","t","i","o","n",":"," ">>
        \* version is the text ",\n  "version": "1.0.0",\n  "description":\s"
        version == <<",","\n"," "," ","\"","v","e","r","s","i","o","n","\"",":"," ","\"","1",".",
            "0",".","0","\"",",","\n"," "," ","\"","d","e","s","c","r","i","p","t","i","o","n",
            "\"",":"," ">>
        \* authorKey is the text ",\n  "author":\s"
        authorKey == <<",","\n"," "," ","\"","a","u","t","h","o","r","\"",":"," ">>
        \* rest is the text ",\n  "scripts": {\n    "dev": "slidev",\n    "build": "slidev build",\n    "export": "slidev export"\n  },\n  "dependencies": {\n    "@slidev/cli": "^0.49.0",\n    "@slidev/theme-seriph": "^0.23.0"\n  }\n}"
        rest == <<",","\n"," "," ","\"","s","c","r","i","p","t","s","\"",":"," ","{","\n"," "," ",
            " "," ","\"","d","e","v","\"",":"," ","\"","s","l","i","d","e","v","\"",",","\n"," ",
            " "," "," ","\"","b","u","i","l","d","\"",":"," ","\"","s","l","i","d","e","v"," ",
            "b","u","i","l","d","\"",",","\n"," "," "," "," ","\"","e","x","p","o","r","t","\"",
            ":"," ","\"","s","l","i","d","e","v"," ","e","x","p","o","r","t","\"","\n"," "," ",
            "}",",","\n"," "," ","\"","d","e","p","e","n","d","e","n","c","i","e","s","\"",":",
            " ","{","\n"," "," "," "," ","\"","@","s","l","i","d","e","v","/","c","l","i","\"",
            ":"," ","\"","^","0",".","4","9",".","0","\"",",","\n"," "," "," "," ","\"","@","s",
            "l","i","d","e","v","/","t","h","e","m","e","-","s","e","r","i","p","h","\"",":"," ",
            "\"","^","0",".","2","3",".","0","\"","\n"," "," ","}","\n","}">>
    IN  name \o JsonString(PackageName(title)) \o version
        \o JsonString(presentation \o title) \o authorKey \o JsonString(author) \o rest

\* slidesContent of index.ts:606-655
SlidesContent(selectedTheme, title, author) ==
    LET
        \* themeKey is the text "theme:\s"
        themeKey == <<"t","h","e","m","e",":"," ">>
        \* titleKey is the text "title:\s"
        titleKey == <<"t","i","t","l","e",":"," ">>
        \* byKey is the text "author:\s"
        byKey == <<"a","u","t","h","o","r",":"," ">>
        \* settings is the text "\ndrawings:\n  enabled: true\n  persist: false\ntransition: slide-left\ncolorSchema: auto\n---\n\n#\s"
        settings == <<"\n","d","r","a","w","i","n","g","s",":","\n"," "," ","e","n","a","b","l",
            "e","d",":"," ","t","r","u","e","\n"," "," ","p","e","r","s","i","s","t",":"," ","f",
            "a","l","s","e","\n","t","r","a","n","s","i","t","i","o","n",":"," ","s","l","i","d",
            "e","-","l","e","f","t","\n","c","o","l","o","r","S","c","h","e","m","a",":"," ","a",
            "u","t","o","\n","-","-","-","\n","\n","#"," ">>
        \* by is the text "\n\nA presentation by\s"
        by == <<"\n","\n","A"," ","p","r","e","s","e","n","t","a","t","i","o","n"," ","b","y"," ">>
        \* rest is the text "\n\n---\nlayout: center\n---\n\n# Table of Contents\n\n- Introduction\n- Main Content\n- Conclusion\n- Q&A\n\n---\n\n# Introduction\n\n<!-- Add your introduction content here -->\n\n---\n\n# Main Content\n\n<!-- Add your main content here -->\n\n---\n\n# Conclusion\n\n<!-- Add your conclusion here -->\n\n---\nlayout: end\n---\n\n# Thank You\n\nQuestions?\n"
        rest == <<"\n","\n","-","-","-","\n","l","a","y","o","u","t",":"," ","c","e","n","t","e",
            "r","\n","-","-","-","\n","\n","#"," ","T","a","b","l","e"," ","o","f"," ","C","o",
            "n","t","e","n","t","s","\n","\n","-"," ","I","n","t","r","o","d","u","c","t","i","o",
            "n","\n","-"," ","M","a","i","n"," ","C","o","n","t","e","n","t","\n","-"," ","C","o",
            "n","c","l","u","s","i","o","n","\n","-"," ","Q","&","A","\n","\n","-","-","-","\n",
            "\n","#"," ","I","n","t","r","o","d","u","c","t","i","o","n","\n","\n","<","!","-",
            "-"," ","A","d","d"," ","y","o","u","r"," ","i","n","t","r","o","d","u","c","t","i",
            "o","n"," ","c","o","n","t","e","n","t"," ","h","e","r","e"," ","-","-",">","\n","\n",
            "-","-","-","\n","\n","#"," ","M","a","i","n"," ","C","o","n","t","e","n","t","\n",
            "\n","<","!","-","-"," ","A","d","d"," ","y","o","u","r"," ","m","a","i","n"," ","c",
            "o","n","t","e","n","t"," ","h","e","r","e"," ","-","-",">","\n","\n","-","-","-",
            "\n","\n","#"," ","C","o","n","c","l","u","s","i","o","n","\n","\n","<","!","-","-",
            " ","A","d","d"," ","y","o","u","r"," ","c","o","n","c","l","u","s","i","o","n"," ",
            "h","e","r","e"," ","-","-",">","\n","\n","-","-","-","\n","l","a","y","o","u","t",
            ":"," ","e","n","d","\n","-","-","-","\n","\n","#"," ","T","h","a","n","k"," ","Y",
            "o","u","\n","\n","Q","u","e","s","t","i","o","n","s","?","\n">>
    IN  DashesLine \o themeKey \o selectedTheme \o NewLine \o titleKey \o title \o NewLine
        \o byKey \o author \o settings \o title \o by \o author \o rest

\* `style ? 'style preference (...)' : 'topic analysis'`
ThemeBasis(style) ==
    LET
        \* stylePreference is the text "style preference ("
        stylePreference == <<"s","t","y","l","e"," ","p","r","e","f","e","r","e","n","c","e"," ",
            "(">>
        \* closeParen is the text ")"
        closeParen == <<")">>
        \* topicAnalysis is the text "topic analysis"
        topicAnalysis == <<"t","o","p","i","c"," ","a","n","a","l","y","s","i","s">>
    IN  IF style.present /\ Truthy(style.value)
        THEN stylePreference \o style.value \o closeParen
        ELSE topicAnalysis

\* the response of index.ts:661-677
ProjectCreatedResponse(title, projectPath, selectedTheme, style) ==
    LET
        \* head is the text "{PARTY_POPPER} Successfully created Slidev project ""
        head == <<"PARTY_POPPER"," ","S","u","c","c","e","s","s","f","u","l","l","y"," ","c","r",
            "e","a","t","e","d"," ","S","l","i","d","e","v"," ","p","r","o","j","e","c","t"," ",
            "\"">>
        \* at is the text "" at\s"
        at == <<"\""," ","a","t"," ">>
        \* recommended is the text "\n\n{ARTIST_PALETTE} Recommended theme:\s"
        recommended == <<"\n","\n","ARTIST_PALETTE"," ","R","e","c","o","m","m","e","n","d","e",
            "d"," ","t","h","e","m","e",":"," ">>
        \* basedOn is the text "\n{LIGHT_BULB} Theme selected based on:\s"
        basedOn == <<"\n","LIGHT_BULB"," ","T","h","e","m","e"," ","s","e","l","e","c","t","e",
            "d"," ","b","a","s","e","d"," ","o","n",":"," ">>
        \* steps is the text "\n\n{ROCKET} Next steps:\n1. cd\s"
        steps == <<"\n","\n","ROCKET"," ","N","e","x","t"," ","s","t","e","p","s",":","\n","1",
            "."," ","c","d"," ">>
        \* rest is the text "\n2. npm install\n3. npm run dev\n4. Edit slides.md to create your presentation"
        rest == <<"\n","2","."," ","n","p","m"," ","i","n","s","t","a","l","l","\n","3","."," ",
            "n","p","m"," ","r","u","n"," ","d","e","v","\n","4","."," ","E","d","i","t"," ","s",
            "l","i","d","e","s",".","m","d"," ","t","o"," ","c","r","e","a","t","e"," ","y","o",
            "u","r"," ","p","r","e","s","e","n","t","a","t","i","o","n">>
    IN  [text |-> head \o title \o at \o projectPath \o recommended \o selectedTheme
                  \o basedOn \o ThemeBasis(style) \o steps \o projectPath \o rest,
         isError |-> Undefined]

\* new Date().toISOString().slice(0, 10): the day of the call, a text the
\* environment gives
CurrentDate == <<"CURRENT_DATE">>

\* the response of index.ts:561-574
TemplateProjectCreatedResponse(title, projectPath, selectedTheme) ==
    LET
        \* head is the text "{PARTY_POPPER} Successfully created Slidev project ""
        head == <<"PARTY_POPPER"," ","S","u","c","c","e","s","s","f","u","l","l","y"," ","c","r",
            "e","a","t","e","d"," ","S","l","i","d","e","v"," ","p","r","o","j","e","c","t"," ",
            "\"">>
        \* from is the text "" from LittleSound talks template!\n\n{FILE_FOLDER} Project created at:\s"
        from == <<"\""," ","f","r","o","m"," ","L","i","t","t","l","e","S","o","u","n","d"," ",
            "t","a","l","k","s"," ","t","e","m","p","l","a","t","e","!","\n","\n","FILE_FOLDER",
            " ","P","r","o","j","e","c","t"," ","c","r","e","a","t","e","d"," ","a","t",":"," ">>
        \* selected is the text "\n{ARTIST_PALETTE} Selected theme:\s"
        selected == <<"\n","ARTIST_PALETTE"," ","S","e","l","e","c","t","e","d"," ","t","h","e",
            "m","e",":"," ">>
        \* folder is the text "\n{CALENDAR} Talk folder:\s"
        folder == <<"\n","CALENDAR"," ","T","a","l","k"," ","f","o","l","d","e","r",":"," ">>
        \* checklist is the text "\n\n{TEMPLATE_CHECKLIST}"
        checklist == <<"\n","\n","TEMPLATE_CHECKLIST">>
    IN  [text |-> head \o title \o from \o projectPath \o selected \o selectedTheme
                  \o folder \o CurrentDate \o checklist,
         isError |-> Undefined]

\* the response of the inner catch, index.ts:680-689
ErrorCreatingProjectResponse ==
    LET
        \* text is the text "{CROSS_MARK} Error creating project: {FS_ERROR}"
        text == <<"CROSS_MARK"," ","E","r","r","o","r"," ","c","r","e","a","t","i","n","g"," ",
            "p","r","o","j","e","c","t",":"," ","FS_ERROR">>
    IN  [text |-> text, isError |-> Undefined]

\* line.replace(/key.*/, replacement) on one line: the text from the first
\* occurrence of the key to the end of the line is replaced
ReplaceInLine(line, key, replacement) ==
    LET occ == Occurrences(line, key)
    IN  IF occ = {} THEN line ELSE SubSeq(line, 1, Min(occ) - 1) \o replacement

\* text.replace(/key: .*/g, replacement): '.' stops at the end of a line, so the
\* replacement acts on each line by itself (a replacement without '$')
ReplaceKeyLines(text, key, replacement) ==
    LET lines == Split(text, NewLine)
    IN  Join([i \in 1..Len(lines) |-> ReplaceInLine(lines[i], key, replacement)], NewLine)

\* updatedSlidesMdContent of index.ts:551-554
UpdatedSlidesMd(content, title, author, selectedTheme) ==
    LET
        \* themeKey is the text "theme:\s"
        themeKey == <<"t","h","e","m","e",":"," ">>
        \* titleKey is the text "title:\s"
        titleKey == <<"t","i","t","l","e",":"," ">>
        \* byKey is the text "author:\s"
        byKey == <<"a","u","t","h","o","r",":"," ">>
    IN  ReplaceKeyLines(
            ReplaceKeyLines(ReplaceKeyLines(content, titleKey, titleKey \o title),
                            byKey, byKey \o author),
            themeKey, themeKey \o selectedTheme)

\* the names of index.ts:520, 538, 545: the manifest, the deck, the template's talk folder
FileName ==
    LET
        \* packageJson is the text "package.json"
        packageJson == <<"p","a","c","k","a","g","e",".","j","s","o","n">>
        \* slidesMd is the text "slides.md"
        slidesMd == <<"s","l","i","d","e","s",".","m","d">>
        \* templateTalk is the text "0000-00-00"
        templateTalk == <<"0","0","0","0","-","0","0","-","0","0">>
    IN  [packageJson |-> packageJson, slidesMd |-> slidesMd, templateTalk |-> templateTalk]

\* The files `npx degit LittleSound/talks-template` leaves in the project
\* directory: a package.json and the talk folder 0000-00-00 with its slides.md.
TemplatePackageJson ==
    LET
        \* text is the text "{\n  "name": "talks",\n  "private": true\n}"
        text == <<"{","\n"," "," ","\"","n","a","m","e","\"",":"," ","\"","t","a","l","k","s",
            "\"",",","\n"," "," ","\"","p","r","i","v","a","t","e","\"",":"," ","t","r","u","e",
            "\n","}">>
    IN  text

TemplateSlidesMd ==
    LET
        \* text is the text "---\ntheme: default\ntitle: Talk title\nauthor: LittleSound\n---\n\n# Talk title\n"
        text == <<"-","-","-","\n","t","h","e","m","e",":"," ","d","e","f","a","u","l","t","\n",
            "t","i","t","l","e",":"," ","T","a","l","k"," ","t","i","t","l","e","\n","a","u","t",
            "h","o","r",":"," ","L","i","t","t","l","e","S","o","u","n","d","\n","-","-","-","\n",
            "\n","#"," ","T","a","l","k"," ","t","i","t","l","e","\n">>
    IN  text

\* JSON.stringify(packageJsonData, null, 2) after index.ts:526-528 for the
\* template's package.json: 'name' keeps its place, the new keys come last
UpdatedTemplatePackageJson(title, author) ==
    LET
        \* name is the text "{\n  "name":\s"
        name == <<"{","\n"," "," ","\"","n","a","m","e","\"",":"," ">>
        \* presentation is the text "Presentation:\s"
        presentation == <<"P","r","e","s","e","n","t","a","t","i","o","n",":"," ">>
        \* private is the text ",\n  "private": true,\n  "description":\s"
        private == <<",","\n"," "," ","\"","p","r","i","v","a","t","e","\"",":"," ","t","r","u",
            "e",",","\n"," "," ","\"","d","e","s","c","r","i","p","t","i","o","n","\"",":"," ">>
        \* authorKey is the text ",\n  "author":\s"
        authorKey == <<",","\n"," "," ","\"","a","u","t","h","o","r","\"",":"," ">>
        \* close is the text "\n}"
        close == <<"\n","}">>
    IN  name \o JsonString(PackageName(title)) \o private
        \o JsonString(presentation \o title) \o authorKey \o JsonString(author) \o close

\* The template branch, index.ts:501-576, after mkdir succeeded: degit and pnpm
\* reject when they are among the failing commands (the inner catch answers);
\* readFile, writeFile and cp failures inside the two nested try blocks are
\* skipped silently.
CreateFromTemplate(title, author, projectPath, selectedTheme, files, made, failing, locals) ==
    LET packageJsonPath == PathJoin(projectPath, FileName.packageJson)
        templateTalkPath == PathJoin(projectPath, FileName.templateTalk)
        newTalkPath == PathJoin(projectPath, CurrentDate)
        newSlidesMdPath == PathJoin(newTalkPath, FileName.slidesMd)
        cloned == WriteFile(WriteFile(files, packageJsonPath, TemplatePackageJson),
                            PathJoin(templateTalkPath, FileName.slidesMd), TemplateSlidesMd)
        clonedDirs == made \cup {templateTalkPath}
        skipped == "readFile" \in failing \/ "writeFile" \in failing
        withPackage ==
            IF skipped THEN cloned
            ELSE WriteFile(cloned, packageJsonPath, UpdatedTemplatePackageJson(title, author))
        copied == WriteFile(withPackage, newSlidesMdPath, TemplateSlidesMd)
        updated ==
            IF skipped THEN copied
            ELSE WriteFile(copied, newSlidesMdPath,
                           UpdatedSlidesMd(TemplateSlidesMd, title, author, selectedTheme))
    IN  IF "degit" \in failing
        THEN [response |-> ErrorCreatingProjectResponse, fs |-> files, dirs |-> made,
              local |-> locals]
        ELSE IF "pnpm" \in failing
        THEN [response |-> ErrorCreatingProjectResponse, fs |-> cloned, dirs |-> clonedDirs,
              local |-> locals]
        ELSE [response |-> TemplateProjectCreatedResponse(title, projectPath, selectedTheme),
              fs |-> IF "cp" \in failing THEN withPackage ELSE updated,
              dirs |-> IF "cp" \in failing THEN clonedDirs ELSE clonedDirs \cup {newTalkPath},
              local |-> locals]

\* case 'create-slidev-project', index.ts:480-690
CreateSlidevProject(a, files, directories, failing) ==
    IF ~CreateSlidevProjectSchemaOk(a)
    THEN Pure(InvalidArgumentsError(Tool.createSlidevProject), files, directories)
    ELSE
    LET title == a.title.value
        author == a.author.value
        projectPath == a.projectPath.value
        useTemplate == IF Arg(a, "useTemplate").present THEN a.useTemplate.bool ELSE FALSE
        selectedTheme == SelectedTheme(Optional(Arg(a, "theme")), title, Optional(Arg(a, "style")))
        made == MkdirRecursive(directories, projectPath)
        locals == [selectedTheme |-> selectedTheme]
    IN  IF "mkdir" \in failing
        THEN [response |-> ErrorCreatingProjectResponse, fs |-> files, dirs |-> directories,
              local |-> locals]
        ELSE IF useTemplate
        THEN CreateFromTemplate(title, author, projectPath, selectedTheme, files, made,
                                failing, locals)
        ELSE IF "writeFile" \in failing
        THEN [response |-> ErrorCreatingProjectResponse, fs |-> files, dirs |-> made,
              local |-> locals]
        ELSE [response |-> ProjectCreatedResponse(title, projectPath, selectedTheme,
                                                  Optional(Arg(a, "style"))),
              fs |-> WriteFile(WriteFile(files, PathJoin(projectPath, FileName.packageJson),
                                         PackageJson(title, author)),
                               PathJoin(projectPath, FileName.slidesMd),
                               SlidesContent(selectedTheme, title, author)),
              dirs |-> made, local |-> locals]

\* ---- the switch of the handler

\* the switch of index.ts:479-1034 with the outer catch of index.ts:1036-1042
HandleCallTool(name, args, files, directories, failing) ==
    LET a == ParsedArgs(args)
    IN  IF name = Tool.createSlidevProject
        THEN CreateSlidevProject(a, files, directories, failing)
        ELSE IF name = Tool.generateSlideContent
        THEN GenerateSlideContent(a, files, directories)
        ELSE IF name = Tool.addSlide
        THEN AddSlide(a, files, directories, failing)
        ELSE IF name = GeneratePresentationName
        THEN GeneratePresentation(a, files, directories, failing)
        ELSE IF name = Tool.createComparison
        THEN CreateComparison(a, files, directories)
        ELSE IF name = Tool.createImageSlide
        THEN CreateImageSlide(a, files, directories)
        ELSE IF name = Tool.formatCode
        THEN FormatCode(a, files, directories)
        ELSE Pure(UnknownToolResponse(name), files, directories)

-----------------------------------------------------------------------------
\* Idle values of the variables a specification does not use

FunIdle == phase = "idle" /\ input = <<>> /\ output = <<>>

SrvIdle ==
    /\ pc = "idle" /\ request = <<>> /\ local = <<>> /\ response = <<>>
    /\ fs = <<>> /\ dirs = {} /\ fsFails = {}

-----------------------------------------------------------------------------
\* Specification SpecValidate: validateSlideContent applied to a text

Alphabet == {"-", "\n", ":", "a", " "}

MaxTextLen == 5

RawTexts == UNION {[1..n -> Alphabet] : n \in 0..MaxTextLen}

\* TestInvalidContent is the text "No separators or frontmatter"
TestInvalidContent == <<"N","o"," ","s","e","p","a","r","a","t","o","r","s"," ","o","r"," ","f",
    "r","o","n","t","m","a","t","t","e","r">>
\* FmLineTheme is the text "theme: seriph"
FmLineTheme == <<"t","h","e","m","e",":"," ","s","e","r","i","p","h">>
\* FmLineTitle is the text "title: Demo"
FmLineTitle == <<"t","i","t","l","e",":"," ","D","e","m","o">>
\* BodyTitle is the text "\n# Title\n\nContent here\n"
BodyTitle == <<"\n","#"," ","T","i","t","l","e","\n","\n","C","o","n","t","e","n","t"," ","h","e",
    "r","e","\n">>
\* BodySlide2 is the text "\n# Slide 2\n\nMore content\n\n"
BodySlide2 == <<"\n","#"," ","S","l","i","d","e"," ","2","\n","\n","M","o","r","e"," ","c","o",
    "n","t","e","n","t","\n","\n">>
\* BodyText is the text "Content here"
BodyText == <<"C","o","n","t","e","n","t"," ","h","e","r","e">>
\* ClosingDashes is the text "\n---"
ClosingDashes == <<"\n","-","-","-">>
\* TestRatioContent is the text "---\ntheme: seriph\n---\n\nRatio: 3:1\n\n---\n\n# Slide 2\n"
TestRatioContent == <<"-","-","-","\n","t","h","e","m","e",":"," ","s","e","r","i","p","h","\n",
    "-","-","-","\n","\n","R","a","t","i","o",":"," ","3",":","1","\n","\n","-","-","-","\n","\n",
    "#"," ","S","l","i","d","e"," ","2","\n">>

FrontMatterLines == {FmLineTheme, FmLineTitle}

SlideBodies == {BodyTitle, BodySlide2, BodyText}

MaxFrontMatterLines == 1

MaxDocSlides == 2

SeqsUpTo(S, n) == UNION {[1..k -> S] : k \in 1..n}

\* A document as the test 'should validate correct slide content' writes it: a
\* '---' line, the front-matter lines, a '---' line, the slide bodies separated by
\* '---' lines, and optionally a closing '---' line.
Document(fm, bodies, closed) ==
    DashesLine \o Join(fm, NewLine) \o SlideDelimiter \o Join(bodies, SlideDelimiter)
    \o (IF closed THEN ClosingDashes ELSE EmptyText)

WellFormedDocs ==
    {Document(fm, bodies, closed) :
        fm \in SeqsUpTo(FrontMatterLines, MaxFrontMatterLines),
        bodies \in SeqsUpTo(SlideBodies, MaxDocSlides),
        closed \in BOOLEAN}

\* validContent of test/index.test.ts:35-49
TestValidContent == Document(<<FmLineTheme>>, <<BodyTitle, BodySlide2>>, TRUE)

InitValidate ==
    /\ phase = "input"
    /\ \E t \in RawTexts \cup WellFormedDocs \cup {TestInvalidContent, TestRatioContent} :
           input = [content |-> t]
    /\ output = <<>>
    /\ SrvIdle

CallValidate ==
    /\ phase = "input"
    /\ phase' = "done"
    /\ output' = validateSlideContent(input.content)
    /\ UNCHANGED <<input, srvVars>>

NextValidate == CallValidate

SpecValidate == InitValidate /\ [][NextValidate]_vars

-----------------------------------------------------------------------------
\* Specification SpecOutline: generatePresentationOutline applied to a topic and
\* to two durations

\* TopicTest is the text "Test Topic"
TopicTest == <<"T","e","s","t"," ","T","o","p","i","c">>
\* TopicHealth is the text "AI in Healthcare"
TopicHealth == <<"A","I"," ","i","n"," ","H","e","a","l","t","h","c","a","r","e">>

OutlineTopics == {TopicTest, TopicHealth, EmptyText}

DurationSpan == 44

ExtremeDurations == {60, 1000, 1000000, 0 - 1000}

Durations == ((0 - DurationSpan)..DurationSpan) \cup ExtremeDurations

InitOutline ==
    /\ phase = "input"
    /\ \E t \in OutlineTopics, d1 \in Durations, d2 \in Durations :
           input = [topic |-> t, duration |-> d1, duration2 |-> d2]
    /\ output = <<>>
    /\ SrvIdle

CallGenerateOutline ==
    /\ phase = "input"
    /\ phase' = "done"
    /\ output' = [outline |-> generatePresentationOutline(input.topic, input.duration),
                  outline2 |-> generatePresentationOutline(input.topic, input.duration2)]
    /\ UNCHANGED <<input, srvVars>>

NextOutline == CallGenerateOutline

SpecOutline == InitOutline /\ [][NextOutline]_vars

-----------------------------------------------------------------------------
\* Specification SpecDeck: createPresentationFromOutline applied to an outline,
\* then validateSlideContent applied to the deck

\* TitleTest is the text "Test Presentation"
TitleTest == <<"T","e","s","t"," ","P","r","e","s","e","n","t","a","t","i","o","n">>
\* TitleAI is the text "AI"
TitleAI == <<"A","I">>
\* AuthorTest is the text "Test Author"
AuthorTest == <<"T","e","s","t"," ","A","u","t","h","o","r">>
\* LabelTitle is the text "Title: Test"
LabelTitle == <<"T","i","t","l","e",":"," ","T","e","s","t">>
\* LabelIntroduction is the text "Introduction"
LabelIntroduction == <<"I","n","t","r","o","d","u","c","t","i","o","n">>
\* LabelMainContent is the text "Main Content"
LabelMainContent == <<"M","a","i","n"," ","C","o","n","t","e","n","t">>
\* ThemeDefaultName is the text "default"
ThemeDefaultName == <<"d","e","f","a","u","l","t">>

DeckTitles == {TitleTest, TitleAI}

DeckAuthors == {AuthorTest}

DeckThemes == {Undefined, Some(ThemeDefaultName)}

\* the labels of the outline of test/index.test.ts:22 and the closing labels
OutlineLabels == {LabelTitle, LabelIntroduction, LabelMainContent, Conclusion, QandA}

MaxOutlineLen == 3

\* a duration for every slide count MinSlides..MaxSlides, and two clamped ones
GeneratedDurations == {2 * n : n \in MinSlides..MaxSlides} \cup {0, 1000}

GeneratedOutlines == {generatePresentationOutline(TopicTest, d) : d \in GeneratedDurations}

\* outline of test/index.test.ts:22
TestOutline == <<LabelTitle, LabelIntroduction, LabelMainContent, Conclusion>>

\* an outline whose labels hold several of the role keywords
MixedOutline ==
    LET
        \* conclusionOfIntroduction is the text "Conclusion of the INTRODUCTION and Q&A"
        conclusionOfIntroduction == <<"C","o","n","c","l","u","s","i","o","n"," ","o","f"," ","t",
            "h","e"," ","I","N","T","R","O","D","U","C","T","I","O","N"," ","a","n","d"," ","Q",
            "&","A">>
        \* questionsAndConclusion is the text "Q&A and conclusion"
        questionsAndConclusion == <<"Q","&","A"," ","a","n","d"," ","c","o","n","c","l","u","s",
            "i","o","n">>
        \* questions is the text "Open q&a"
        questions == <<"O","p","e","n"," ","q","&","a">>
    IN  <<LabelTitle, conclusionOfIntroduction, questionsAndConclusion, questions>>

DeckOutlines ==
    UNION {[1..n -> OutlineLabels] : n \in 0..MaxOutlineLen}
    \cup GeneratedOutlines \cup {TestOutline, MixedOutline}

InitDeck ==
    /\ phase = "input"
    /\ \E t \in DeckTitles, a \in DeckAuthors, o \in DeckOutlines, th \in DeckThemes :
           input = [title |-> t, author |-> a, outline |-> o, theme |-> th]
    /\ output = <<>>
    /\ SrvIdle

CallCreatePresentation ==
    /\ phase = "input"
    /\ phase' = "rendered"
    /\ output' = [content |-> createPresentationFromOutline(
                                  input.title, input.author, input.outline, input.theme)]
    /\ UNCHANGED <<input, srvVars>>

CallValidateDeck ==
    /\ phase = "rendered"
    /\ phase' = "done"
    /\ output' = [content |-> output.content,
                  validation |-> validateSlideContent(output.content)]
    /\ UNCHANGED <<input, srvVars>>

NextDeck == CallCreatePresentation \/ CallValidateDeck

SpecDeck == InitDeck /\ [][NextDeck]_vars

-----------------------------------------------------------------------------
\* Specification SpecTheme: recommendTheme applied to a topic and a style, and
\* recommendLayout applied to a description

\* TopicResearchExample is the text "AI research breakthroughs"
TopicResearchExample == <<"A","I"," ","r","e","s","e","a","r","c","h"," ","b","r","e","a","k","t",
    "h","r","o","u","g","h","s">>
\* TopicCooking is the text "cooking"
TopicCooking == <<"c","o","o","k","i","n","g">>
\* WordResearchCap is the text "Research"
WordResearchCap == <<"R","e","s","e","a","r","c","h">>
\* WordTechCap is the text "TECH"
WordTechCap == <<"T","E","C","H">>
\* WordCreativeBusiness is the text "Creative Business"
WordCreativeBusiness == <<"C","r","e","a","t","i","v","e"," ","B","u","s","i","n","e","s","s">>
\* WordCasualCap is the text "Casual"
WordCasualCap == <<"C","a","s","u","a","l">>
\* Space is the text "\s"
Space == <<" ">>

TopicWords ==
    {TopicResearchExample, TopicCooking, WordResearchCap, WordTechCap, WordCreativeBusiness,
     KwAcademic, KwResearch, KwTech, KwProgramming, KwDevelopment, KwCreative, KwFun,
     KwFormal, KwBusiness, KwCasual}

StyleWords ==
    {WordCasualCap, WordTechCap, KwAcademic, KwResearch, KwTech, KwProgramming, KwCreative,
     KwFun, KwFormal, KwBusiness, KwCasual, KwFriendly, TopicCooking}

MaxTopicWords == 1

MaxStyleWords == 1

\* the texts of 0..n words of W separated by spaces
Phrases(W, n) == {Join(ws, Space) : ws \in UNION {[1..k -> W] : k \in 0..n}}

\* descriptions of a slide: the keywords of recommendLayout, some in capitals or
\* inside another word, and a word that holds none
DescriptionWords ==
    LET
        \* comparison is the text "comparison"
        comparison == <<"c","o","m","p","a","r","i","s","o","n">>
        \* vs is the text "vs"
        vs == <<"v","s">>
        \* versus is the text "Versus"
        versus == <<"V","e","r","s","u","s">>
        \* quote is the text "quote"
        quote == <<"q","u","o","t","e">>
        \* saying is the text "saying"
        saying == <<"s","a","y","i","n","g">>
        \* image is the text "IMAGE"
        image == <<"I","M","A","G","E">>
        \* picture is the text "picture"
        picture == <<"p","i","c","t","u","r","e">>
        \* photo is the text "photo"
        photo == <<"p","h","o","t","o">>
        \* center is the text "center"
        center == <<"c","e","n","t","e","r">>
        \* focus is the text "focus"
        focus == <<"f","o","c","u","s">>
        \* introduction is the text "Introduction"
        introduction == <<"I","n","t","r","o","d","u","c","t","i","o","n">>
        \* trends is the text "Trends"
        trends == <<"T","r","e","n","d","s">>
        \* conclusion is the text "conclusion"
        conclusion == <<"c","o","n","c","l","u","s","i","o","n">>
        \* thank is the text "Thank you"
        thank == <<"T","h","a","n","k"," ","y","o","u">>
        \* canvas is the text "canvas"
        canvas == <<"c","a","n","v","a","s">>
        \* centeredPicture is the text "Centered picture"
        centeredPicture == <<"C","e","n","t","e","r","e","d"," ","p","i","c","t","u","r","e">>
        \* quoteAtTheEnd is the text "A quote at the end"
        quoteAtTheEnd == <<"A"," ","q","u","o","t","e"," ","a","t"," ","t","h","e"," ","e","n","d">>
    IN  {comparison, vs, versus, quote, saying, image, picture, photo, center, focus,
         LayoutIntro, introduction, LayoutEnd, trends, conclusion, thank, canvas,
         centeredPicture, quoteAtTheEnd, TopicCooking}

MaxDescriptionWords == 1

\* a call of recommendTheme (phase "input") or of recommendLayout (phase "inputLayout")
InitTheme ==
    /\ \/ /\ phase = "input"
          /\ \E t \in Phrases(TopicWords, MaxTopicWords) :
             \E s \in {Undefined} \cup {Some(p) : p \in Phrases(StyleWords, MaxStyleWords)} :
                 input = [topic |-> t, style |-> s]
       \/ /\ phase = "inputLayout"
          /\ \E d \in Phrases(DescriptionWords, MaxDescriptionWords) :
                 input = [description |-> d]
    /\ output = <<>>
    /\ SrvIdle

CallRecommendTheme ==
    /\ phase = "input"
    /\ phase' = "done"
    /\ output' = recommendTheme(input.topic, input.style)
    /\ UNCHANGED <<input, srvVars>>

CallRecommendLayout ==
    /\ phase = "inputLayout"
    /\ phase' = "doneLayout"
    /\ output' = recommendLayout(input.description)
    /\ UNCHANGED <<input, srvVars>>

NextTheme == CallRecommendTheme \/ CallRecommendLayout

SpecTheme == InitTheme /\ [][NextTheme]_vars

-----------------------------------------------------------------------------
\* Specification SpecSlides: createComparisonSlide applied to titles and two
\* lists of items, and createImageSlide applied to a title, a path, a caption
\* and a layout

\* TitleAvsB is the text "A vs B"
TitleAvsB == <<"A"," ","v","s"," ","B">>
\* TitleT is the text "T"
TitleT == <<"T">>
\* ColumnA is the text "A"
ColumnA == <<"A">>
\* ColumnB is the text "B"
ColumnB == <<"B">>
\* ItemX is the text "x"
ItemX == <<"x">>
\* ItemY is the text "y"
ItemY == <<"y">>
\* RightMarker is the text "::right::"
RightMarker == <<":",":","r","i","g","h","t",":",":">>
\* ImagePathP is the text "p.png"
ImagePathP == <<"p",".","p","n","g">>
\* CaptionCap is the text "cap"
CaptionCap == <<"c","a","p">>

SlideTitles == {TitleAvsB, TitleT, EmptyText}

\* an item may repeat on both sides and may spell a marker
SlideItems == {ItemX, ItemY, RightMarker}

MaxItems == 2

ItemLists == UNION {[1..n -> SlideItems] : n \in 0..MaxItems}

Captions == {Undefined, Some(EmptyText), Some(CaptionCap), Some(ItemX)}

ImageLayouts == {Undefined, Some(LayoutImage), Some(LayoutImageLeft), Some(LayoutImageRight)}

InitSlides ==
    /\ \/ /\ phase = "inputComparison"
          /\ \E t \in SlideTitles, l \in ItemLists, r \in ItemLists :
                 input = [title |-> t, leftTitle |-> ColumnA, leftContent |-> l,
                          rightTitle |-> ColumnB, rightContent |-> r]
       \/ /\ phase = "inputImage"
          /\ \E t \in SlideTitles, c \in Captions, l \in ImageLayouts :
                 input = [title |-> t, imagePath |-> ImagePathP, caption |-> c, layout |-> l]
    /\ output = <<>>
    /\ SrvIdle

CallCreateComparisonSlide ==
    /\ phase = "inputComparison"
    /\ phase' = "doneComparison"
    /\ output' = createComparisonSlide(input.title, input.leftTitle, input.leftContent,
                                       input.rightTitle, input.rightContent)
    /\ UNCHANGED <<input, srvVars>>

CallCreateImageSlide ==
    /\ phase = "inputImage"
    /\ phase' = "doneImage"
    /\ output' = createImageSlide(input.title, input.imagePath, input.caption, input.layout)
    /\ UNCHANGED <<input, srvVars>>

NextSlides == CallCreateComparisonSlide \/ CallCreateImageSlide

SpecSlides == InitSlides /\ [][NextSlides]_vars

-----------------------------------------------------------------------------
\* Specification Spec: the server handling one CallTool request

\* NoSuchToolName is the text "no-such-tool"
NoSuchToolName == <<"n","o","-","s","u","c","h","-","t","o","o","l">>
\* PathNested is the text "out/talk/slides.md"
PathNested == <<"o","u","t","/","t","a","l","k","/","s","l","i","d","e","s",".","m","d">>
\* PathPlain is the text "slides.md"
PathPlain == <<"s","l","i","d","e","s",".","m","d">>
\* AuthorAl is the text "Al"
AuthorAl == <<"A","l">>
\* StyleCasual is the text "casual"
StyleCasual == <<"c","a","s","u","a","l">>
\* NumberAsText is the text "30"
NumberAsText == <<"3","0">>
\* OldContent is the text "old"
OldContent == <<"o","l","d">>

ArgTopics == {Str(TopicResearchExample), Str(TopicCooking), Undefined}

ArgAuthors == {Str(AuthorAl), Num(7)}

MaxDurationArg == 2

\* the durations 0, 15, 30, ... a request may carry
ArgDurations ==
    {Undefined, Str(NumberAsText)} \cup {Num(15 * k) : k \in 0..MaxDurationArg}

ArgThemes == {Undefined, Str(ThemeDefaultName), Str(EmptyText)}

ArgStyles == {Undefined, Str(StyleCasual)}

ArgPaths == {Str(PathNested), Str(PathPlain)}

ArgBags ==
    [topic : ArgTopics, author : ArgAuthors, duration : ArgDurations,
     theme : ArgThemes, outputPath : ArgPaths, style : ArgStyles]

\* the arguments of the README's example call of generate-presentation
ExampleBag ==
    [topic |-> Str(TopicResearchExample), author |-> Str(AuthorAl), duration |-> Num(30),
     theme |-> Undefined, outputPath |-> Str(PathPlain), style |-> Undefined]

\* `arguments` of a request: an object, the JSON text of an object, or something
\* that is neither (null, undefined, a number, a text that is no JSON)
Arguments ==
    {[kind |-> "object", fields |-> f] : f \in ArgBags}
    \cup {[kind |-> "json", fields |-> ExampleBag], [kind |-> "other", fields |-> NoArguments]}

\* the requests for generate-presentation and for a name no tool has
PresentationRequests ==
    {[name |-> GeneratePresentationName, arguments |-> a] : a \in Arguments}
    \cup {[name |-> NoSuchToolName, arguments |-> [kind |-> k, fields |-> ExampleBag]] :
              k \in {"object", "json"}}

\* PathProject is the text "out/talk"
PathProject == <<"o","u","t","/","t","a","l","k">>
\* SlideNew is the text "# New"
SlideNew == <<"#"," ","N","e","w">>
\* DescriptionVs is the text "A vs B"
DescriptionVs == <<"A"," ","v","s"," ","B">>
\* DescriptionSaying is the text "a famous saying"
DescriptionSaying == <<"a"," ","f","a","m","o","u","s"," ","s","a","y","i","n","g">>
\* DescriptionLong is the text "one vs two three four five six seven eight nine ten eleven twelve"
DescriptionLong == <<"o","n","e"," ","v","s"," ","t","w","o"," ","t","h","r","e","e"," ","f","o",
    "u","r"," ","f","i","v","e"," ","s","i","x"," ","s","e","v","e","n"," ","e","i","g","h","t",
    " ","n","i","n","e"," ","t","e","n"," ","e","l","e","v","e","n"," ","t","w","e","l","v","e">>
\* LayoutUnknown is the text "poster"
LayoutUnknown == <<"p","o","s","t","e","r">>
\* CodeX is the text "x = 1"
CodeX == <<"x"," ","="," ","1">>
\* LanguageTs is the text "ts"
LanguageTs == <<"t","s">>
\* ProjectNameDemo is the text "demo"
ProjectNameDemo == <<"d","e","m","o">>

\* the tools the README lists under its heading of available tools,
\* part_000:57-172
ReadmeTools ==
    LET
        \* initFromTemplate is the text "init-from-template"
        initFromTemplate == <<"i","n","i","t","-","f","r","o","m","-","t","e","m","p","l","a","t",
            "e">>
        \* listLayouts is the text "list-layouts"
        listLayouts == <<"l","i","s","t","-","l","a","y","o","u","t","s">>
        \* listThemes is the text "list-themes"
        listThemes == <<"l","i","s","t","-","t","h","e","m","e","s">>
    IN  {Tool.createSlidevProject, GeneratePresentationName, Tool.generateSlideContent,
         Tool.addSlide, initFromTemplate, Tool.createComparison, Tool.createImageSlide,
         Tool.formatCode, listLayouts, listThemes}

Object(fields) == [kind |-> "object", fields |-> fields]

ProjectBags ==
    [title : {Str(TopicResearchExample), Str(TopicCooking), Undefined},
     author : {Str(AuthorAl)},
     theme : ArgThemes,
     projectPath : {Str(PathProject)},
     useTemplate : {Undefined, Bool(TRUE), Bool(FALSE)},
     style : ArgStyles]

SlideContentBags ==
    [topic : {Str(TitleT)},
     description : {Str(DescriptionVs), Str(DescriptionSaying), Str(DescriptionLong),
                    Str(TopicCooking), Undefined},
     layout : {Undefined, Str(LayoutImageLeft), Str(LayoutDefault), Str(LayoutUnknown),
               Str(EmptyText)}]

MaxPosition == 3

ArgPositions == {Undefined, Str(NumberAsText)} \cup {Num(n) : n \in (0 - 2)..MaxPosition}

AddSlideBags ==
    [slidesPath : {Str(PathPlain), Str(PathNested)},
     slideContent : {Str(SlideNew), Str(EmptyText), Undefined},
     position : ArgPositions]

ArgItems == {List(<<>>), List(<<ItemX>>), List(<<ItemY, ItemX>>), Str(ItemX)}

ComparisonBags ==
    [title : {Str(TitleAvsB)}, leftTitle : {Str(ColumnA)}, leftContent : ArgItems,
     rightTitle : {Str(ColumnB), Undefined}, rightContent : ArgItems]

ImageSlideBags ==
    [title : {Str(TitleT)}, imagePath : {Str(ImagePathP), Undefined},
     caption : {Undefined, Str(CaptionCap)},
     layout : {Undefined, Str(LayoutImage), Str(LayoutImageLeft), Str(LayoutImageRight),
               Str(LayoutUnknown)}]

FormatCodeBags == [code : {Str(CodeX), Undefined}, language : {Undefined, Str(LanguageTs)}]

\* calls of the README's tools that the ListTools handler does not announce,
\* with the arguments the README gives for init-from-template, with an empty
\* object and with no arguments
ReadmeOnlyRequests ==
    {[name |-> n, arguments |-> a] :
        n \in ReadmeTools \ RegisteredTools,
        a \in {Object([projectName |-> Str(ProjectNameDemo), projectPath |-> Str(PathProject),
                       authorName |-> Str(AuthorAl)]),
               Object(<<>>), [kind |-> "other", fields |-> NoArguments]}}

Requests ==
    PresentationRequests
    \cup {[name |-> Tool.createSlidevProject, arguments |-> Object(f)] : f \in ProjectBags}
    \cup {[name |-> Tool.generateSlideContent, arguments |-> Object(f)] : f \in SlideContentBags}
    \cup {[name |-> Tool.addSlide, arguments |-> Object(f)] : f \in AddSlideBags}
    \cup {[name |-> Tool.createComparison, arguments |-> Object(f)] : f \in ComparisonBags}
    \cup {[name |-> Tool.createImageSlide, arguments |-> Object(f)] : f \in ImageSlideBags}
    \cup {[name |-> Tool.formatCode, arguments |-> Object(f)] : f \in FormatCodeBags}
    \cup ReadmeOnlyRequests

FsOperations == {"mkdir", "writeFile"}

\* the filesystem operations and the commands a tool runs
OperationsFor(name) ==
    IF name = Tool.createSlidevProject
    THEN {"mkdir", "writeFile", "readFile", "cp", "degit", "pnpm"}
    ELSE IF name = Tool.addSlide THEN {"readFile", "writeFile"}
    ELSE FsOperations

InitialDisks == {<<>>, [p \in {PathPlain} |-> OldContent]}

MaxDeckSegments == 3

\* a file of n segments '# 1', '# 2', ... separated by '---' lines
DeckOfSegments(n) ==
    LET
        \* heading is the text "#\s"
        heading == <<"#"," ">>
    IN  Join([k \in 1..n |-> heading \o NatToText(k)], SlideDelimiter)

\* the disks add-slide runs on: no file, an empty file, a file of 1..MaxDeckSegments
\* segments and the deck create-slidev-project writes
SlideDisks ==
    {<<>>, [p \in {PathPlain} |-> EmptyText],
     [p \in {PathPlain} |-> SlidesContent(ThemeSeriph, TitleT, AuthorAl)]}
    \cup {[p \in {PathPlain} |-> DeckOfSegments(n)] : n \in 1..MaxDeckSegments}

DisksFor(name) == IF name = Tool.addSlide THEN SlideDisks ELSE InitialDisks

Init ==
    /\ FunIdle
    /\ pc = "received"
    /\ request \in Requests
    /\ local = <<>>
    /\ response = <<>>
    /\ fs \in DisksFor(request.name)
    /\ dirs = {}
    /\ fsFails \in SUBSET OperationsFor(request.name)

\* The handler runs from the request to its return value.
CallTool ==
    /\ pc = "received"
    /\ \E r \in {HandleCallTool(request.name, request.arguments, fs, dirs, fsFails)} :
           /\ response' = r.response
           /\ local' = r.local
           /\ fs' = r.fs
           /\ dirs' = r.dirs
    /\ pc' = "responded"
    /\ UNCHANGED <<funVars, request, fsFails>>

Next == CallTool

Spec == Init /\ [][Next]_vars


-----------------------------------------------------------------------------
\* Specification SpecBlocks: the renderers of slide blocks, each applied to its
\* arguments: createPresentationFromOutline (table of contents and content
\* slides), createComparisonSlide, createImageSlide and generateSlideContent

BlockLayouts ==
    LET
        \* twoCols is the text "two-cols"
        twoCols == <<"t","w","o","-","c","o","l","s">>
        \* quote is the text "quote"
        quote == <<"q","u","o","t","e">>
    IN  {LayoutDefault, LayoutIntro, LayoutImageLeft, twoCols, quote}

\* the bodies the generate-slide-content handler passes, and two short ones
BlockContents(layout, topic) ==
    {SlideBody(layout, topic, d) : d \in {DescriptionVs, DescriptionLong}}
    \cup {ItemX, EmptyText}

InitSlideContent ==
    /\ phase = "inputSlide"
    /\ \E t \in SlideTitles, l \in BlockLayouts :
       \E c \in BlockContents(l, t) :
           input = [topic |-> t, layout |-> l, content |-> c]
    /\ output = <<>>
    /\ SrvIdle

CallGenerateSlideContent ==
    /\ phase = "inputSlide"
    /\ phase' = "doneSlide"
    /\ output' = generateSlideContent(input.topic, input.layout, input.content)
    /\ UNCHANGED <<input, srvVars>>

InitBlocks == InitDeck \/ InitSlides \/ InitSlideContent

NextBlocks ==
    \/ CallCreatePresentation
    \/ CallCreateComparisonSlide
    \/ CallCreateImageSlide
    \/ CallGenerateSlideContent

SpecBlocks == InitBlocks /\ [][NextBlocks]_vars

-----------------------------------------------------------------------------
\* Specification SpecAddSlides: two add-slide requests for the same file, handled
\* concurrently.  The handler of index.ts:791-831 is asynchronous: it gives way at
\* `await fs.readFile` and at `await fs.writeFile`, so the steps of the two calls
\* interleave there.  pc, request, local and response hold one value per call.

\* SlideOther is the text "# Other"
SlideOther == <<"#"," ","O","t","h","e","r">>

Callers == {1, 2}

\* call 1 adds '# New', call 2 adds '# Other', each at any position
ConcurrentRequests ==
    {[i \in Callers |->
         [name |-> Tool.addSlide,
          arguments |-> Object([slidesPath |-> Str(PathPlain),
                                slideContent |-> IF i = 1 THEN Str(SlideNew) ELSE c,
                                position |-> ps[i]])]] :
        c \in {Str(SlideOther), Undefined}, ps \in [Callers -> ArgPositions]}

InitAddSlides ==
    /\ FunIdle
    /\ pc = [i \in Callers |-> "received"]
    /\ request \in ConcurrentRequests
    /\ local = [i \in Callers |-> <<>>]
    /\ response = [i \in Callers |-> <<>>]
    /\ fs \in SlideDisks
    /\ dirs = {}
    /\ fsFails \in SUBSET {"readFile", "writeFile"}

\* index.ts:792-799: the arguments are parsed and the file is read
AddSlideReadFile(i) ==
    LET a == request[i].arguments.fields
    IN  /\ pc[i] = "received"
        /\ IF ~AddSlideSchemaOk(a)
           THEN /\ response' = [response EXCEPT ![i] = InvalidArgumentsError(Tool.addSlide)]
                /\ pc' = [pc EXCEPT ![i] = "responded"]
                /\ local' = local
           ELSE IF a.slidesPath.value \notin DOMAIN fs \/ "readFile" \in fsFails
           THEN /\ response' = [response EXCEPT ![i] = ErrorAddingSlideResponse]
                /\ pc' = [pc EXCEPT ![i] = "responded"]
                /\ local' = local
           ELSE /\ local' = [local EXCEPT ![i] = [content |-> fs[a.slidesPath.value]]]
                /\ pc' = [pc EXCEPT ![i] = "read"]
                /\ response' = response
        /\ UNCHANGED <<funVars, request, fs, dirs, fsFails>>

\* index.ts:800-819: the slide is inserted into what was read, and the file written
AddSlideWriteFile(i) ==
    LET a == request[i].arguments.fields
        slides == Split(local[i].content, SlideDelimiter)
        newContent ==
            Join(InsertSlide(slides, Arg(a, "position"), a.slideContent.value), SlideDelimiter)
    IN  /\ pc[i] = "read"
        /\ pc' = [pc EXCEPT ![i] = "responded"]
        /\ local' = [local EXCEPT ![i] = [content |-> local[i].content,
                                          newContent |-> newContent]]
        /\ IF "writeFile" \in fsFails
           THEN /\ response' = [response EXCEPT ![i] = ErrorAddingSlideResponse]
                /\ fs' = fs
           ELSE /\ response' = [response EXCEPT ![i] = AddedSlideResponse(a.slidesPath.value)]
                /\ fs' = WriteFile(fs, a.slidesPath.value, newContent)
        /\ UNCHANGED <<funVars, request, dirs, fsFails>>

NextAddSlides == \E i \in Callers : AddSlideReadFile(i) \/ AddSlideWriteFile(i)

SpecAddSlides == InitAddSlides /\ [][NextAddSlides]_vars

-----------------------------------------------------------------------------
\* Properties

\* HeadingPrefix is the text "#\s"
HeadingPrefix == <<"#"," ">>

\* ---- generate-presentation (specification Spec)

\* The request is a generate-presentation call whose arguments pass the schema;
\* every text of Requests is a single line.
WellTypedGenerateCall ==
    /\ request.name = GeneratePresentationName
    /\ request.arguments.kind \in {"object", "json"}
    /\ GeneratePresentationSchemaOk(request.arguments.fields)

\* the deck the handler renders for the request's arguments
RequestedDeck ==
    LET a == request.arguments.fields
        duration == IF a.duration.present THEN a.duration.number ELSE DefaultDuration
    IN  createPresentationFromOutline(
            a.topic.value, a.author.value,
            generatePresentationOutline(a.topic.value, duration),
            Some(SelectedTheme(a.theme, a.topic.value, a.style)))

\* C1: a generate-presentation call with well-typed single-line arguments, on a
\* filesystem that accepts writes, ends with the rendered deck written to
\* outputPath and the success message, not with the 'Validation errors' response.
C1_GenerateWritesDeck ==
    (pc = "responded" /\ WellTypedGenerateCall /\ fsFails = {})
    => /\ StartsWith(response.text, SuccessHead)
       /\ ~StartsWith(response.text, ValidationErrorsHead)
       /\ request.arguments.fields.outputPath.value \in DOMAIN fs
       /\ fs[request.arguments.fields.outputPath.value] = RequestedDeck

\* ---- createPresentationFromOutline and validateSlideContent (specification SpecDeck)

\* C2: the deck rendered from any non-empty outline of generic labels, for every
\* title, author and theme, validates with isValid = TRUE and no error.
C2_RenderedDeckIsValid ==
    (phase = "done" /\ Len(input.outline) > 0)
    => (output.validation.isValid /\ output.validation.errors = <<>>)

\* C9: the rendered deck contains the heading '# ' + title, the author, and the
\* label of every outline item after the first.
C9_DeckContainsInputs ==
    (phase \in {"rendered", "done"})
    => /\ Includes(output.content, HeadingPrefix \o input.title)
       /\ Includes(output.content, input.author)
       /\ \A i \in 2..Len(input.outline) : Includes(output.content, input.outline[i])

\* the deck of test/index.test.ts:22-23 has been rendered; its 'Introduction' and
\* 'Conclusion' labels appear in the table of contents only
C9_Witness ==
    /\ phase = "rendered"
    /\ input.outline = TestOutline
    /\ input.title = TitleTest
    /\ input.author = AuthorTest
    /\ Includes(output.content, BulletPrefix \o LabelIntroduction)

\* ---- validateSlideContent (specification SpecValidate)

\* C3: a document that starts with a front-matter block and whose slides each
\* hold a non-blank line without a colon, separated by '---' lines, validates
\* with isValid = TRUE and no error.
C3_WellFormedAccepted ==
    (phase = "done" /\ input.content \in WellFormedDocs)
    => (output.isValid /\ Len(output.errors) = 0)

\* C4: for a text without the substring '---' the result is invalid with at least
\* two errors, first the missing-separator and second the missing-front-matter one.
C4_NoSeparatorTwoErrors ==
    (phase = "done" /\ ~Includes(input.content, Dashes))
    => /\ output.isValid = FALSE
       /\ Len(output.errors) >= 2
       /\ output.errors[1] = MissingSeparators
       /\ output.errors[2] = MissingFrontmatter

\* the text of test/index.test.ts:57 has been validated: exactly the two errors
C4_Witness ==
    /\ phase = "done"
    /\ input.content = TestInvalidContent
    /\ ~Includes(input.content, Dashes)
    /\ output.errors = <<MissingSeparators, MissingFrontmatter>>

\* ---- generatePresentationOutline (specification SpecOutline)

\* C5 as stated: duration 0 gives 5 items and duration 1000 gives 20 items.
C5_ClampBoundariesOriginal ==
    (phase = "done")
    => /\ (input.duration = 0 => Len(output.outline) = 5)
       /\ (input.duration = 1000 => Len(output.outline) = 20)

\* C5 amended: duration 0 gives 5 items, the minimum; duration 1000 gives 18
\* items (3 opening, 12 content and 3 closing items), the maximum, below the
\* slide-count cap of 20.
C5_ClampBoundaries ==
    (phase = "done")
    => /\ (input.duration = 0 => Len(output.outline) = 5)
       /\ (input.duration = 1000 => Len(output.outline) = 18)
       /\ Len(output.outline) >= 5
       /\ Len(output.outline) <= 18

C5_Witness ==
    /\ phase = "done"
    /\ input.duration = 1000
    /\ input.duration2 = 0
    /\ Len(output.outline) = 18
    /\ Len(output.outline2) = 5

\* C6: the outline length is monotone non-decreasing in the duration.
C6_LengthMonotone ==
    (phase = "done" /\ input.duration < input.duration2)
    => Len(output.outline) <= Len(output.outline2)

\* the durations of test/index.test.ts:14-15: 10 minutes against 60 minutes
C6_Witness ==
    /\ phase = "done"
    /\ input.duration = 10
    /\ input.duration2 = 60
    /\ Len(output.outline) < Len(output.outline2)

\* clamp(floor(d / 2), 5, 20), the clamped slide count the claims speak of
Clamped(d) ==
    LET half == d \div 2
    IN  IF half < 5 THEN 5 ELSE IF half > 20 THEN 20 ELSE half

\* C7 as stated: the length increases strictly whenever the clamped slide counts
\* of d1 < d2 differ.
C7_StrictWhenClampedDifferOriginal ==
    (phase = "done" /\ input.duration < input.duration2
                    /\ Clamped(input.duration) < Clamped(input.duration2))
    => Len(output.outline) < Len(output.outline2)

\* the pairs of clamped slide counts with equal outline lengths
EqualLengthPairs == {<<15, 16>>, <<17, 18>>}

\* C7 amended: the length increases strictly whenever the clamped slide counts
\* differ, except for the clamped counts 15 and 16 (both 15 items) and 17 and 18
\* (both 16 items), where the lengths are equal.
C7_StrictWhenClampedDiffer ==
    (phase = "done" /\ input.duration < input.duration2
                    /\ Clamped(input.duration) < Clamped(input.duration2))
    => IF <<Clamped(input.duration), Clamped(input.duration2)>> \in EqualLengthPairs
       THEN Len(output.outline) = Len(output.outline2)
       ELSE Len(output.outline) < Len(output.outline2)

\* clamped counts 14 and 17: 14 items against 16 items
C7_Witness ==
    /\ phase = "done"
    /\ input.duration = 28
    /\ input.duration2 = 34
    /\ Clamped(input.duration) < Clamped(input.duration2)
    /\ Len(output.outline) < Len(output.outline2)

\* C8: for any topic and any integer duration the outline is non-empty and its
\* first item is 'Title: ' followed by the topic.
C8_TitleFirst ==
    (phase = "done")
    => /\ Len(output.outline) > 0
       /\ output.outline[1] = TitlePrefix \o input.topic
       /\ Len(output.outline2) > 0
       /\ output.outline2[1] = TitlePrefix \o input.topic

\* a negative and a very large duration
C8_Witness ==
    /\ phase = "done"
    /\ input.topic = TopicHealth
    /\ input.duration < 0
    /\ input.duration2 = 1000000
    /\ output.outline[1] = TitlePrefix \o TopicHealth

\* ---- recommendTheme (specification SpecTheme)

\* rule i of ThemeRules matches the lower-cased topic and style
RuleMatches(i, topicLower, styleLower) ==
    \/ \E k \in ThemeRules[i].style : Includes(styleLower, k)
    \/ \E k \in ThemeRules[i].topic : Includes(topicLower, k)

MatchingRules(topic, style) ==
    {i \in 1..Len(ThemeRules) : RuleMatches(i, ToLowerCase(topic), StyleLower(style))}

\* C10: the rules are evaluated in the order academic, apple-basic, bricks, light,
\* penguin; the first matching rule gives the result whatever later rules match,
\* and 'seriph' is returned when none matches.  A topic containing 'research' with
\* no style gives 'academic', style 'casual' with a topic matching no rule gives
\* 'penguin', a topic matching no rule with no style gives 'seriph'.
C10_FirstMatchingRuleWins ==
    (phase = "done")
    => LET m == MatchingRules(input.topic, input.style)
       IN  /\ m # {} => output = ThemeRules[Min(m)].theme
           /\ m = {} => output = ThemeSeriph
           /\ <<ThemeRules[1].theme, ThemeRules[2].theme, ThemeRules[3].theme,
                ThemeRules[4].theme, ThemeRules[5].theme>>
              = <<ThemeAcademic, ThemeAppleBasic, ThemeBricks, ThemeLight, ThemePenguin>>
           /\ (Includes(ToLowerCase(input.topic), KwResearch) /\ ~input.style.present)
              => output = ThemeAcademic
           /\ (input.style = Some(KwCasual) /\ MatchingRules(input.topic, Undefined) = {})
              => output = ThemePenguin
           /\ (MatchingRules(input.topic, Undefined) = {} /\ ~input.style.present)
              => output = ThemeSeriph
           /\ (input.topic = TopicResearchExample /\ input.style = Undefined)
              => output = ThemeAcademic
           /\ (input.topic = TopicCooking /\ input.style = Some(KwCasual))
              => output = ThemePenguin
           /\ (input.topic = TopicCooking /\ input.style = Undefined)
              => output = ThemeSeriph

\* the creative rule and the business rule both match; the earlier one wins
C10_Witness ==
    /\ phase = "done"
    /\ input.topic = WordCreativeBusiness
    /\ ~input.style.present
    /\ MatchingRules(input.topic, input.style) = {3, 4}
    /\ output = ThemeBricks

\* ---- recommendTheme and recommendLayout (specification SpecTheme)

\* the members of a catalog
Members(catalog) == {catalog[i] : i \in 1..Len(catalog)}

\* C11: for every topic, optional style and description, the empty text included,
\* recommendTheme returns a name of the theme catalog and recommendLayout returns a
\* name of the layout catalog.
C11_RecommendationsInCatalogs ==
    /\ (phase = "done") => output \in Members(SLIDEV_THEMES)
    /\ (phase = "doneLayout") => output \in Members(SLIDEV_LAYOUTS)

\* recommendLayout has answered for the empty description
C11_Witness ==
    /\ phase = "doneLayout"
    /\ input.description = EmptyText
    /\ output = LayoutDefault
    /\ output \in Members(SLIDEV_LAYOUTS)

\* ---- createComparisonSlide and createImageSlide (specification SpecSlides)

\* TwoColsHeader is the text "layout: two-cols"
TwoColsHeader == <<"l","a","y","o","u","t",":"," ","t","w","o","-","c","o","l","s">>
\* LeftMarker is the text "::left::"
LeftMarker == <<":",":","l","e","f","t",":",":">>
\* SubHeadingPrefix is the text "##\s"
SubHeadingPrefix == <<"#","#"," ">>

\* a line of a rendered slide that is neither blank nor a '---' line
IsRenderedLine(line) == Truthy(Trim(line)) /\ line # Dashes

RenderedLines(slide) == SelectSeq(Split(slide, NewLine), IsRenderedLine)

Bullets(items) == [i \in 1..Len(items) |-> BulletPrefix \o items[i]]

\* C12: the lines of the comparison slide, blank and '---' lines aside, are in this
\* order: 'layout: two-cols', '# title', '::left::', '## leftTitle', one '- item'
\* line per left item in input order, '::right::', '## rightTitle', one '- item'
\* line per right item in input order; so every left item is before '::right::'
\* and every right item after it.
C12_ComparisonPartsInOrder ==
    (phase = "doneComparison")
    => /\ RenderedLines(output)
          = <<TwoColsHeader, HeadingPrefix \o input.title, LeftMarker,
              SubHeadingPrefix \o input.leftTitle>>
            \o Bullets(input.leftContent)
            \o <<RightMarker, SubHeadingPrefix \o input.rightTitle>>
            \o Bullets(input.rightContent)
       /\ StartsWith(output, DashesLine \o TwoColsHeader \o NewLine \o DashesLine)

\* a comparison with one left item that is also the second right item
C12_Witness ==
    /\ phase = "doneComparison"
    /\ input.title = TitleAvsB
    /\ input.leftContent = <<ItemX>>
    /\ input.rightContent = <<ItemY, ItemX>>
    /\ RenderedLines(output)[5] = BulletPrefix \o ItemX
    /\ RenderedLines(output)[6] = RightMarker
    /\ Len(RenderedLines(output)) = 9

\* Star is the text "*"
Star == <<"*">>

\* the lines of the image slide, and the layout the call renders
ImageLines == Split(output, NewLine)

ChosenLayout == IF input.layout.present THEN input.layout.value ELSE LayoutImage

\* the call of createImageSlide has returned and its caption was a non-empty text
CaptionedImageDone ==
    phase = "doneImage" /\ input.caption.present /\ Truthy(input.caption.value)

ItalicCaption == Star \o input.caption.value \o Star

\* C13 as stated: with layout 'image' the italic caption is on the line of the
\* '# title' heading; with 'image-left' or 'image-right' it is a line of its own
\* below the heading; the outputs for 'image' and 'image-left' differ.
C13_CaptionPlacementOriginal ==
    CaptionedImageDone
    => /\ (ChosenLayout = LayoutImage)
          => \E i \in 1..Len(ImageLines) :
                 /\ StartsWith(ImageLines[i], HeadingPrefix \o input.title)
                 /\ Includes(ImageLines[i], ItalicCaption)
       /\ (ChosenLayout \in {LayoutImageLeft, LayoutImageRight})
          => \E i, j \in 1..Len(ImageLines) :
                 /\ i < j
                 /\ ImageLines[i] = HeadingPrefix \o input.title
                 /\ ImageLines[j] = ItalicCaption
       /\ createImageSlide(input.title, input.imagePath, input.caption, Some(LayoutImage))
          # createImageSlide(input.title, input.imagePath, input.caption,
                             Some(LayoutImageLeft))

\* the number of lines from the heading to the caption
CaptionDistance == IF ChosenLayout = LayoutImage THEN 2 ELSE 4

\* C13 (amended): for every layout the heading line is exactly '# title' and the
\* italic caption is a line of its own below it, after one blank line with layout
\* 'image' and after three blank lines with 'image-left' or 'image-right'; no line
\* holds both; the outputs for 'image' and 'image-left' differ.
C13_CaptionPlacement ==
    CaptionedImageDone
    => /\ \E i \in 1..Len(ImageLines) :
              /\ ImageLines[i] = HeadingPrefix \o input.title
              /\ i + CaptionDistance <= Len(ImageLines)
              /\ ImageLines[i + CaptionDistance] = ItalicCaption
              /\ \A k \in (i + 1)..(i + CaptionDistance - 1) : ImageLines[k] = EmptyText
       /\ \A i \in 1..Len(ImageLines) :
              ~(/\ StartsWith(ImageLines[i], HeadingPrefix \o input.title)
                /\ Includes(ImageLines[i], ItalicCaption))
       /\ createImageSlide(input.title, input.imagePath, input.caption, Some(LayoutImage))
          # createImageSlide(input.title, input.imagePath, input.caption,
                             Some(LayoutImageLeft))

\* createImageSlide('T', 'p.png', 'cap', 'image') has returned
C13_Witness ==
    /\ phase = "doneImage"
    /\ input.title = TitleT
    /\ input.caption = Some(CaptionCap)
    /\ input.layout = Some(LayoutImage)
    /\ ImageLines[6] = HeadingPrefix \o TitleT
    /\ ImageLines[8] = Star \o CaptionCap \o Star

\* ---- the CallTool request handler (specification Spec)

\* C14: a call to a tool the README lists as available never ends in the
\* 'Unknown tool' error.
C14_ReadmeToolsDispatched ==
    (pc = "responded" /\ request.name \in ReadmeTools)
    => ~StartsWith(response.text, UnknownToolHead)

\* C15: a call whose name is no registered tool returns (the handler does not
\* raise) a response with isError = true whose message names the tool, and
\* leaves the files and directories as they were.
C15_UnknownToolFails ==
    [][(pc = "received" /\ request.name \notin RegisteredTools)
       => /\ pc' = "responded"
          /\ response'.isError = Some(TRUE)
          /\ response'.text = UnknownToolHead \o request.name
          /\ Includes(response'.text, request.name)
          /\ fs' = fs
          /\ dirs' = dirs]_vars

\* the call of 'no-such-tool' has been answered
C15_Witness ==
    /\ pc = "responded"
    /\ request.name = NoSuchToolName
    /\ request.name \notin RegisteredTools
    /\ response.isError = Some(TRUE)
    /\ dirs = {}

\* the arguments object of the request
Fields == ParsedArgs(request.arguments)

\* the request is an add-slide call with well-typed arguments and a position that
\* is absent or not negative, for a file that exists, and no operation rejects
AddSlideCall ==
    /\ request.name = Tool.addSlide
    /\ AddSlideSchemaOk(Fields)
    /\ Fields.slidesPath.value \in DOMAIN fs
    /\ (Fields.position.present => Fields.position.number >= 0)
    /\ fsFails = {}

\* the segments the file must hold after the call: the new slide before segment p
\* when 0 <= p < n, after the last segment otherwise
ExpectedSegments(segments, position, slideContent) ==
    IF position.present /\ position.number < Len(segments)
    THEN SubSeq(segments, 1, position.number) \o <<slideContent>>
         \o SubSeq(segments, position.number + 1, Len(segments))
    ELSE Append(segments, slideContent)

\* C16: add-slide with position p, 0 <= p < n, on a file of segments s[0..n-1]
\* leaves s[0..p-1], slideContent, s[p..n-1]; with no position or p >= n it leaves
\* s[0..n-1], slideContent; the previous segments keep their order.
C16_AddSlideAtPosition ==
    [][(pc = "received" /\ AddSlideCall)
       => fs'[Fields.slidesPath.value]
          = Join(ExpectedSegments(Split(fs[Fields.slidesPath.value], SlideDelimiter),
                                  Fields.position, Fields.slideContent.value),
                 SlideDelimiter)]_vars

\* ThemeLinePrefix is the text "theme:\s"
ThemeLinePrefix == <<"t","h","e","m","e",":"," ">>

\* the request is a create-slidev-project or generate-presentation call whose
\* arguments pass the schema
ThemedCall ==
    \/ request.name = Tool.createSlidevProject /\ CreateSlidevProjectSchemaOk(Fields)
    \/ WellTypedGenerateCall

\* the text recommendTheme analyses: the title of a project, the topic of a
\* presentation
ThemeSubject ==
    IF request.name = Tool.createSlidevProject THEN Fields.title.value ELSE Fields.topic.value

\* the decks the call rendered: the deck generate-presentation passes to the
\* validator, the slides.md files create-slidev-project wrote
RenderedDecks ==
    IF request.name = GeneratePresentationName THEN {local.presentationContent}
    ELSE {fs[p] : p \in {PathJoin(Fields.projectPath.value, FileName.slidesMd),
                         PathJoin(PathJoin(Fields.projectPath.value, CurrentDate),
                                  FileName.slidesMd)} \cap DOMAIN fs}

\* the front matter of every deck of the call has the line 'theme: ' + theme, and
\* the handler's selectedTheme is that theme; the decks are looked at when no
\* operation rejected
ThemeUsed(theme) ==
    /\ local.selectedTheme = theme
    /\ (fsFails = {})
       => \A deck \in RenderedDecks :
              StartsWith(deck, DashesLine \o ThemeLinePrefix \o theme \o NewLine)

Segments == Split(input.content, SlideDelimiter)

\* the place of an error in the order of detection: 0 for the missing separators,
\* 1 for the missing front matter, 1 + k for the empty segment k, and -1 for any
\* other text
Rank(error) ==
    IF error = MissingSeparators THEN 0
    ELSE IF error = MissingFrontmatter THEN 1
    ELSE IF \E k \in 1..Len(Segments) : error = SlidePrefix \o NatToText(k) \o AppearsEmpty
    THEN 1 + (CHOOSE k \in 1..Len(Segments) :
                  error = SlidePrefix \o NatToText(k) \o AppearsEmpty)
    ELSE 0 - 1

\* C18: for every text, the empty one included, validateSlideContent returns a
\* result whose isValid is true exactly when its error list is empty, and whose
\* errors are in detection order: missing separators, missing front matter, then
\* the empty slides by increasing segment number.
C18_ErrorsInDetectionOrder ==
    (phase = "done")
    => /\ DOMAIN output = {"isValid", "errors"}
       /\ output.isValid \in BOOLEAN
       /\ output.isValid <=> (Len(output.errors) = 0)
       /\ \A i \in 1..Len(output.errors) : Rank(output.errors[i]) >= 0
       /\ \A i, j \in 1..Len(output.errors) :
              i < j => Rank(output.errors[i]) < Rank(output.errors[j])

\* the empty text has been validated: one error of each kind, in order
C18_Witness ==
    /\ phase = "done"
    /\ input.content = EmptyText
    /\ ~output.isValid
    /\ output.errors = <<MissingSeparators, MissingFrontmatter, EmptySlideError(0)>>

\* a line that the empty-slide check does not count
IsStrippedLine(line) ==
    Trim(line) = EmptyText \/ StartsWith(line, Dashes) \/ Includes(line, Colon)

Reported(error) == \E i \in 1..Len(output.errors) : output.errors[i] = error

StatedOutline(topic, s) ==
    <<TitlePrefix \o topic, IntroductionAndOverview, BackgroundAndContext>>
    \o [i \in 1..((6 * s) \div 10) |-> MainContentPrefix \o NatToText(i)]
    \o <<KeyTakeaways, Conclusion, QandA>>

\* clamp(floor(d / 2), 5, 20)
StatedSlideCount(d) ==
    IF d \div 2 < 5 THEN 5 ELSE IF d \div 2 > 20 THEN 20 ELSE d \div 2

\* C19: for every duration d the outline is the first s items of <<'Title: ' +
\* topic, 'Introduction and Overview', 'Background and Context', 'Main Content 1'
\* .. 'Main Content floor(0.6 s)', 'Key Takeaways', 'Conclusion', 'Q&A'>> with
\* s = clamp(floor(d / 2), 5, 20); at d = 10 it is the three opening items and
\* 'Main Content 1', 'Main Content 2'; at d = 30 it has 15 items and ends with the
\* three closing items.
C19_OutlineIsTruncatedSequence ==
    (phase = "done")
    => LET s == StatedSlideCount(input.duration)
           full == StatedOutline(input.topic, s)
       IN  /\ output.outline = SubSeq(full, 1, Min2(s, Len(full)))
           /\ (input.duration = 10)
              => output.outline
                 = <<TitlePrefix \o input.topic, IntroductionAndOverview,
                     BackgroundAndContext, MainContentPrefix \o <<"1">>,
                     MainContentPrefix \o <<"2">> >>
           /\ (input.duration = 30)
              => /\ Len(output.outline) = 15
                 /\ SubSeq(output.outline, 13, 15) = <<KeyTakeaways, Conclusion, QandA>>

\* the outlines for 10 and for 30 minutes have been generated
C19_Witness ==
    /\ phase = "done"
    /\ input.duration = 10
    /\ input.duration2 = 30
    /\ Len(output.outline) = 5
    /\ output.outline[5] = MainContentPrefix \o <<"2">>
    /\ Len(output.outline2) = 15
    /\ output.outline2[15] = QandA

\* ---- recommendTheme, keyword by keyword (specification SpecTheme)

\* the first four rules as C21 lists them: the keywords of the rule and its theme
StatedThemeRules ==
    << [theme |-> ThemeAcademic, keywords |-> {KwAcademic, KwResearch}],
       [theme |-> ThemeAppleBasic, keywords |-> {KwTech, KwProgramming, KwDevelopment}],
       [theme |-> ThemeBricks, keywords |-> {KwCreative, KwFun}],
       [theme |-> ThemeLight, keywords |-> {KwFormal, KwBusiness}] >>

\* some keyword of stated rule i occurs in the style or in the topic
StatedRuleMatches(i) ==
    \E k \in StatedThemeRules[i].keywords :
        \/ Includes(StyleLower(input.style), k)
        \/ Includes(ToLowerCase(input.topic), k)

\* C21 as stated: in each of the first four rules every keyword is tested against
\* the style and against the topic, so a style or a topic that holds a keyword of
\* the rule gets the rule's theme when no earlier rule matched.
C21_EveryKeywordBothTextsOriginal ==
    (phase = "done")
    => \A i \in 1..Len(StatedThemeRules) :
           (StatedRuleMatches(i) /\ \A j \in 1..(i - 1) : ~StatedRuleMatches(j))
           => output = StatedThemeRules[i].theme

\* the keywords each rule looks for in the style and those it looks for in the topic
TestedKeywords ==
    << [style |-> {KwAcademic, KwResearch}, topic |-> {KwResearch}],
       [style |-> {KwTech}, topic |-> {KwTech, KwProgramming, KwDevelopment}],
       [style |-> {KwCreative, KwFun}, topic |-> {KwCreative}],
       [style |-> {KwFormal, KwBusiness}, topic |-> {KwBusiness}],
       [style |-> {KwCasual, KwFriendly}, topic |-> {}] >>

TestedRuleMatches(i) ==
    \/ \E k \in TestedKeywords[i].style : Includes(StyleLower(input.style), k)
    \/ \E k \in TestedKeywords[i].topic : Includes(ToLowerCase(input.topic), k)

\* C21, amended: the academic rule looks for 'academic' and 'research' in the
\* style and for 'research' only in the topic; the apple-basic rule for 'tech' in
\* the style and for 'tech', 'programming', 'development' in the topic; the bricks
\* rule for 'creative', 'fun' in the style and 'creative' in the topic; the light
\* rule for 'formal', 'business' in the style and 'business' in the topic; the
\* penguin rule for 'casual', 'friendly' in the style only.  A rule's theme is
\* returned exactly when the rule is the first one that matches in this sense.
C21_KeywordsPerText ==
    (phase = "done")
    => \A i \in 1..Len(TestedKeywords) :
           (output = (StatedThemeRules \o <<[theme |-> ThemePenguin]>>)[i].theme)
           <=> (TestedRuleMatches(i) /\ \A j \in 1..(i - 1) : ~TestedRuleMatches(j))

\* the topic 'academic' without a style: the keyword of the first rule is in the
\* topic, where that rule does not look for it, and the default theme is returned
C21_Witness ==
    /\ phase = "done"
    /\ input.topic = KwAcademic
    /\ ~input.style.present
    /\ StatedRuleMatches(1)
    /\ ~TestedRuleMatches(1)
    /\ output = ThemeSeriph

\* ---- recommendLayout, rule by rule (specification SpecTheme)

\* the rules of C22 in their stated order: the keywords and the layout
StatedLayoutRules ==
    LET
        \* comparison is the text "comparison"
        comparison == <<"c","o","m","p","a","r","i","s","o","n">>
        \* vs is the text "vs"
        vs == <<"v","s">>
        \* versus is the text "versus"
        versus == <<"v","e","r","s","u","s">>
        \* quote is the text "quote"
        quote == <<"q","u","o","t","e">>
        \* saying is the text "saying"
        saying == <<"s","a","y","i","n","g">>
        \* image is the text "image"
        image == <<"i","m","a","g","e">>
        \* picture is the text "picture"
        picture == <<"p","i","c","t","u","r","e">>
        \* photo is the text "photo"
        photo == <<"p","h","o","t","o">>
        \* center is the text "center"
        center == <<"c","e","n","t","e","r">>
        \* focus is the text "focus"
        focus == <<"f","o","c","u","s">>
        \* intro is the text "intro"
        intro == <<"i","n","t","r","o">>
        \* introduction is the text "introduction"
        introduction == <<"i","n","t","r","o","d","u","c","t","i","o","n">>
        \* end is the text "end"
        end == <<"e","n","d">>
        \* conclusion is the text "conclusion"
        conclusion == <<"c","o","n","c","l","u","s","i","o","n">>
        \* thank is the text "thank"
        thank == <<"t","h","a","n","k">>
        \* twoCols is the text "two-cols"
        twoCols == <<"t","w","o","-","c","o","l","s">>
    IN  << [layout |-> twoCols, keywords |-> {comparison, vs, versus}],
           [layout |-> quote, keywords |-> {quote, saying}],
           [layout |-> image, keywords |-> {image, picture, photo}],
           [layout |-> center, keywords |-> {center, focus}],
           [layout |-> intro, keywords |-> {intro, introduction}],
           [layout |-> end, keywords |-> {end, conclusion, thank}] >>

\* the stated rules with a keyword that occurs in the lower-cased description
MatchingLayoutRules(description) ==
    {i \in 1..Len(StatedLayoutRules) :
        \E k \in StatedLayoutRules[i].keywords : Includes(ToLowerCase(description), k)}

\* C22: recommendLayout returns the layout of the first rule, in the order
\* two-cols, quote, image, center, intro, end, one of whose keywords occurs in the
\* lower-cased description, and 'default' when none occurs, the empty description
\* included.
C22_FirstMatchingLayoutRule ==
    (phase = "doneLayout")
    => LET m == MatchingLayoutRules(input.description)
       IN  /\ m # {} => output = StatedLayoutRules[Min(m)].layout
           /\ m = {} => output = LayoutDefault
           /\ input.description = EmptyText => output = LayoutDefault

\* a description that holds 'center' and 'picture': the image rule comes first
C22_Witness ==
    /\ phase = "doneLayout"
    /\ MatchingLayoutRules(input.description) = {3, 4}
    /\ output = StatedLayoutRules[3].layout

\* ---- createPresentationFromOutline, block by block (specification SpecDeck)

\* the positions of the element x in seq[lo..hi], in increasing order
RECURSIVE Positions(_, _, _, _)
Positions(seq, x, lo, hi) ==
    IF lo > hi THEN <<>>
    ELSE IF lo = hi THEN (IF seq[lo] = x THEN <<lo>> ELSE <<>>)
    ELSE Positions(seq, x, lo, (lo + hi) \div 2)
         \o Positions(seq, x, ((lo + hi) \div 2) + 1, hi)

\* the lines of a text: the stretches between its newline characters
LinesOf(text) ==
    CHOOSE lines \in
        {[k \in 1..(Len(at) + 1) |->
             SubSeq(text, IF k = 1 THEN 1 ELSE at[k - 1] + 1,
                          IF k > Len(at) THEN Len(text) ELSE at[k] - 1)] :
         at \in {Positions(text, "\n", 1, Len(text))}} : TRUE

\* a line of a deck that is neither empty nor a '---' line
IsBodyLine(line) == line # EmptyText /\ line # Dashes

BodyLines(lines) == SelectSeq(lines, IsBodyLine)

\* the positions of the '---' lines among the lines of a deck
DashesLines(lines) == {i \in 1..Len(lines) : lines[i] = Dashes}

\* the outline items after the first
RestItems == SliceFrom(input.outline, 1)

RECURSIVE Flatten(_)
Flatten(seqs) == IF Len(seqs) = 0 THEN <<>> ELSE Head(seqs) \o Flatten(Tail(seqs))

\* the name of the theme the deck is rendered with
DeckTheme == IF input.theme.present THEN input.theme.value ELSE DefaultTheme

\* C23: the deck begins with a front-matter block between '---' lines that holds
\* theme, title, author, 'transition: slide-left' and 'colorSchema: auto'; then
\* come, in order, the title slide, one table of contents with layout center and
\* one bullet per outline item after the first, and one content slide per outline
\* item after the first; the first item has no bullet and no content slide.
C23_DeckStructure ==
    (phase \in {"rendered", "done"})
    => LET
           \* themeKey is the text "theme:\s"
           themeKey == <<"t","h","e","m","e",":"," ">>
           \* titleKey is the text "title:\s"
           titleKey == <<"t","i","t","l","e",":"," ">>
           \* authorKey is the text "author:\s"
           authorKey == <<"a","u","t","h","o","r",":"," ">>
           \* transition is the text "transition: slide-left"
           transition == <<"t","r","a","n","s","i","t","i","o","n",":"," ","s","l","i","d","e",
               "-","l","e","f","t">>
           \* colorSchema is the text "colorSchema: auto"
           colorSchema == <<"c","o","l","o","r","S","c","h","e","m","a",":"," ","a","u","t","o">>
           \* presentationBy is the text "A presentation by\s"
           presentationBy == <<"A"," ","p","r","e","s","e","n","t","a","t","i","o","n"," ","b",
               "y"," ">>
           \* layoutCenter is the text "layout: center"
           layoutCenter == <<"l","a","y","o","u","t",":"," ","c","e","n","t","e","r">>
           \* tocHeading is the text "# Table of Contents"
           tocHeading == <<"#"," ","T","a","b","l","e"," ","o","f"," ","C","o","n","t","e","n",
               "t","s">>
           lines == LinesOf(output.content)
           dashes == DashesLines(lines)
           \* the line that closes the front matter
           closing == Min(dashes \ {1})
           frontMatter == {lines[i] : i \in 2..(closing - 1)}
           slideLines == BodyLines(SliceFrom(lines, closing))
           contentSlides == [i \in 1..Len(RestItems) |->
                                 BodyLines(LinesOf(ItemSlide(RestItems[i], input.title, input.author)))]
       IN  /\ lines[1] = Dashes
           /\ {themeKey \o DeckTheme, titleKey \o input.title, authorKey \o input.author,
               transition, colorSchema} \subseteq frontMatter
           /\ slideLines
              = <<HeadingPrefix \o input.title, presentationBy \o input.author,
                  layoutCenter, tocHeading>>
                \o Bullets(RestItems)
                \o Flatten(contentSlides)
           \* three '---' lines per block: title, table of contents, one per item
           /\ Cardinality(dashes) = 3 * (2 + Len(RestItems))

\* the deck of the test outline: four items, three bullets and three content slides
C23_Witness ==
    /\ phase = "rendered"
    /\ input.outline = TestOutline
    /\ Len(RestItems) = 3
    /\ Cardinality(DashesLines(LinesOf(output.content))) = 15
    /\ ~Includes(output.content, BulletPrefix \o LabelTitle)
    /\ Includes(output.content, BulletPrefix \o Conclusion)

\* ---- createPresentationFromOutline, item by item (specification SpecDeck)

\* the role C24 gives an outline item: the first of the keywords 'introduction',
\* 'conclusion', 'q&a' that its lower-cased label holds, and "generic" without one
StatedRole(item) ==
    IF Includes(ToLowerCase(item), KwIntroduction) THEN "introduction"
    ELSE IF Includes(ToLowerCase(item), KwConclusion) THEN "conclusion"
    ELSE IF Includes(ToLowerCase(item), KwQandA) THEN "q&a"
    ELSE "generic"

\* block b of a deck, its '---' lines at the positions at[3b - 2], at[3b - 1] and
\* at[3b]: the lines of its header and the non-empty lines of its body
BlockOf(lines, at, b) ==
    [header |-> SubSeq(lines, at[3 * b - 2] + 1, at[3 * b - 1] - 1),
     body |-> BodyLines(SubSeq(lines, at[3 * b - 1] + 1, at[3 * b] - 1))]

\* the blocks of the rendered deck, in order
DeckBlocks ==
    CHOOSE blocks \in
        {[b \in 1..(Len(Positions(lines, Dashes, 1, Len(lines))) \div 3) |->
             BlockOf(lines, Positions(lines, Dashes, 1, Len(lines)), b)] :
         lines \in {LinesOf(output.content)}} : TRUE

\* C24: the content slide of an outline item after the first has layout intro when
\* the lower-cased label holds 'introduction', else layout statement when it holds
\* 'conclusion', else layout end and a body that names the author when it holds
\* 'q&a'; otherwise it has no layout line and its body starts with '## ' + label.
\* An item that holds several keywords gets the earliest of these roles.
C24_ItemClassification ==
    (phase \in {"rendered", "done"})
    => \A blocks \in {DeckBlocks} :
       \A i \in 1..Len(RestItems) :
           LET block == blocks[i + 2]
               role == StatedRole(RestItems[i])
               generic == (block.body[1] = SubHeadingPrefix \o RestItems[i])
           IN  /\ role = "introduction"
                  => block.header = <<LayoutKey \o LayoutIntro>> /\ ~generic
               /\ role = "conclusion"
                  => block.header = <<LayoutKey \o LayoutStatement>> /\ ~generic
               /\ role = "q&a"
                  => /\ block.header = <<LayoutKey \o LayoutEnd>>
                     /\ ~generic
                     /\ \E n \in 1..Len(block.body) : Includes(block.body[n], input.author)
               /\ role = "generic"
                  => block.header = <<>> /\ generic

\* the deck of the outline whose labels hold several keywords: the label with
\* 'conclusion' and 'INTRODUCTION' is an intro slide, the one with 'Q&A' and
\* 'conclusion' a statement slide
C24_Witness ==
    /\ phase = "rendered"
    /\ input.outline = MixedOutline
    /\ StatedRole(MixedOutline[2]) = "introduction"
    /\ Includes(ToLowerCase(MixedOutline[2]), KwConclusion)
    /\ DeckBlocks[3].header = <<LayoutKey \o LayoutIntro>>
    /\ DeckBlocks[4].header = <<LayoutKey \o LayoutStatement>>
    /\ DeckBlocks[5].header = <<LayoutKey \o LayoutEnd>>

\* ---- generatePresentationOutline rendered by createPresentationFromOutline
\* (specification SpecDeck)

\* the role keywords that the lower-cased label holds
RoleKeywords(item) ==
    {k \in {KwIntroduction, KwConclusion, KwQandA} : Includes(ToLowerCase(item), k)}

\* C25: in an outline returned by generatePresentationOutline every item after the
\* first holds at most one of the keywords 'introduction', 'conclusion', 'q&a';
\* 'Introduction and Overview' is rendered with layout intro, 'Conclusion' with
\* layout statement, 'Q&A' with layout end, and 'Background and Context', each
\* 'Main Content i' and 'Key Takeaways' with no layout line and the generic body.
C25_LabelsAndKeywordsInSync ==
    (phase \in {"rendered", "done"} /\ input.outline \in GeneratedOutlines)
    => \A blocks \in {DeckBlocks} :
       \A i \in 1..Len(RestItems) :
           LET item == RestItems[i]
               block == blocks[i + 2]
               generic == /\ block.header = <<>>
                          /\ block.body[1] = SubHeadingPrefix \o item
           IN  /\ Cardinality(RoleKeywords(item)) <= 1
               /\ \/ item = IntroductionAndOverview
                     /\ block.header = <<LayoutKey \o LayoutIntro>>
                  \/ item = Conclusion /\ block.header = <<LayoutKey \o LayoutStatement>>
                  \/ item = QandA /\ block.header = <<LayoutKey \o LayoutEnd>>
                  \/ item = BackgroundAndContext /\ generic
                  \/ item = KeyTakeaways /\ generic
                  \/ /\ \E n \in 1..MaxSlides : item = MainContentPrefix \o NatToText(n)
                     /\ generic

\* the deck of the 30-minute outline: fifteen items, the last three rendered as a
\* generic, a statement and an end slide
C25_Witness ==
    /\ phase = "rendered"
    /\ input.outline = generatePresentationOutline(TopicTest, DefaultDuration)
    /\ Len(input.outline) = 15
    /\ DeckBlocks[3].header = <<LayoutKey \o LayoutIntro>>
    /\ DeckBlocks[14].header = <<>>
    /\ DeckBlocks[15].header = <<LayoutKey \o LayoutStatement>>
    /\ DeckBlocks[16].header = <<LayoutKey \o LayoutEnd>>

\* ---- the slide blocks of all renderers (specification SpecBlocks)

\* The lines of a block have the form of C26 with the given header lines: a '---'
\* line, the header, a '---' line, an empty line, the body, an empty line and the
\* closing '---' line.
HasBlockForm(block, header) ==
    LET n == Len(block)
        c == Len(header) + 2
    IN  /\ n >= c + 3
        /\ block[1] = Dashes
        /\ SubSeq(block, 2, c - 1) = header
        /\ block[c] = Dashes
        /\ block[c + 1] = EmptyText
        /\ block[n - 1] = EmptyText
        /\ block[n] = Dashes

\* the header C26 states for a layout: no line for 'default', else 'layout: name'
LayoutHeader(layout) ==
    IF layout = LayoutDefault THEN <<>> ELSE <<LayoutKey \o layout>>

\* the layout of the content slide of an outline item
RoleLayout(item) ==
    CASE StatedRole(item) = "introduction" -> LayoutIntro
      [] StatedRole(item) = "conclusion" -> LayoutStatement
      [] StatedRole(item) = "q&a" -> LayoutEnd
      [] OTHER -> LayoutDefault

\* The blocks of a deck after the first have the form of C26: the table of
\* contents with layout center, then the content slides.
DeckBlocksHaveForm(lines, at) ==
    LET
        \* center is the text "center"
        center == <<"c","e","n","t","e","r">>
    IN  /\ Len(at) = 3 * (2 + Len(RestItems))
        /\ HasBlockForm(SubSeq(lines, at[4], at[6]), LayoutHeader(center))
        /\ \A i \in 1..Len(RestItems) :
               HasBlockForm(SubSeq(lines, at[3 * i + 4], at[3 * i + 6]),
                            LayoutHeader(RoleLayout(RestItems[i])))

\* The text is one block of the form of C26 with the given header, followed by a
\* newline.
IsOneBlock(lines, at, header) ==
    /\ Len(at) = 3
    /\ at[3] = Len(lines) - 1
    /\ lines[Len(lines)] = EmptyText
    /\ HasBlockForm(SubSeq(lines, 1, at[3]), header)

\* the text a renderer of SpecBlocks has returned, when it has returned
Rendered ==
    IF phase = "rendered" THEN output.content
    ELSE IF phase \in {"doneComparison", "doneImage", "doneSlide"} THEN output
    ELSE EmptyText

\* the slide blocks of the renderers have the form of C26, the image slide with
\* the given header
BlocksHaveForm(imageHeader) ==
    \A lines \in {LinesOf(Rendered)} :
    \A at \in {Positions(lines, Dashes, 1, Len(lines))} :
        /\ phase = "rendered" => DeckBlocksHaveForm(lines, at)
        /\ phase = "doneComparison" => IsOneBlock(lines, at, <<TwoColsHeader>>)
        /\ phase = "doneSlide" => IsOneBlock(lines, at, LayoutHeader(input.layout))
        /\ phase = "doneImage" => IsOneBlock(lines, at, imageHeader)

\* C26 as stated: every slide block of the table of contents, the deck's content
\* slides, the comparison slide, the image slide and the generate-slide-content
\* slide is a '---' line, at most one header line 'layout: name' that is left out
\* exactly for layout 'default', a '---' line, a blank line, the body, a blank line
\* and a closing '---' line.
C26_BlockFormOriginal == BlocksHaveForm(LayoutHeader(ChosenLayout))

\* C26, amended: the same form, but the header of the image slide has two lines,
\* 'layout: name' and 'image: path'.
C26_BlockForm ==
    LET
        \* imageKey is the text "image:\s"
        imageKey == <<"i","m","a","g","e",":"," ">>
    IN  BlocksHaveForm(<<LayoutKey \o ChosenLayout, imageKey \o input.imagePath>>)

\* an image slide with the default layout has been rendered: its second header
\* line names the image
C26_Witness ==
    /\ phase = "doneImage"
    /\ ~input.layout.present
    /\ LinesOf(output)[2] = LayoutKey \o LayoutImage
    /\ Includes(LinesOf(output)[3], input.imagePath)
    /\ LinesOf(output)[4] = Dashes

\* ---- generate-presentation: validation before the write (specification Spec)

\* the paths whose file the handler's step creates or overwrites
WrittenPaths == {p \in DOMAIN fs' : p \notin DOMAIN fs \/ fs'[p] # fs[p]}

\* C27: a generate-presentation call creates or overwrites no file but the one at
\* outputPath, and that one only with a text for which validateSlideContent returns
\* isValid = TRUE, the deck it rendered; when the validation of the rendered deck
\* reports an error, the response lists the errors and no directory is created
\* and no file is written.
C27_ValidationGatesWrite ==
    [][(request.name = GeneratePresentationName /\ pc = "received" /\ pc' = "responded")
       => /\ \A p \in WrittenPaths :
                 /\ WellTypedGenerateCall
                 /\ p = request.arguments.fields.outputPath.value
                 /\ fs'[p] = RequestedDeck
                 /\ validateSlideContent(fs'[p]).isValid
          /\ (WellTypedGenerateCall /\ ~validateSlideContent(RequestedDeck).isValid)
             => /\ fs' = fs
                /\ dirs' = dirs
                /\ response'.text
                   = ValidationErrorsHead
                     \o Join(validateSlideContent(RequestedDeck).errors, NewLine)]_vars

\* a well-typed call whose deck failed the validation has been answered with the
\* error list; the file that was at outputPath is untouched and no directory exists
C27_Witness ==
    /\ pc = "responded"
    /\ WellTypedGenerateCall
    /\ request.arguments.fields.outputPath.value = PathPlain
    /\ ~validateSlideContent(RequestedDeck).isValid
    /\ StartsWith(response.text, ValidationErrorsHead)
    /\ fsFails = {}
    /\ PathPlain \in DOMAIN fs
    /\ fs[PathPlain] = OldContent
    /\ dirs = {}

\* ---- generatePresentationOutline: the closing sections (specification SpecOutline)

\* the outline ends with the three closing items
EndsWithClosing(outline) ==
    /\ Len(outline) >= 3
    /\ SubSeq(outline, Len(outline) - 2, Len(outline)) = <<KeyTakeaways, Conclusion, QandA>>

\* The closing items of the outline for duration d are as C28 states.
ClosingSurvives(d, outline) ==
    /\ EndsWithClosing(outline) <=> (StatedSlideCount(d) >= 13)
    /\ (StatedSlideCount(d) >= 13) <=> (d >= 26)
    /\ (d < 26)
       => /\ \A i \in 1..Len(outline) : outline[i] # QandA
          \* no item after the first is rendered with layout end
          /\ \A i \in 2..Len(outline) : ItemLayout(outline[i]) # LayoutEnd

\* C28: the outline ends with 'Key Takeaways', 'Conclusion', 'Q&A' exactly when
\* clamp(floor(d / 2), 5, 20) >= 13, that is when d >= 26, the default duration 30
\* included; for every shorter duration 'Q&A' is not in the outline and the deck
\* has no slide with layout end.
C28_ClosingSurvivesFrom26 ==
    (phase = "done")
    => /\ ClosingSurvives(input.duration, output.outline)
       /\ ClosingSurvives(input.duration2, output.outline2)
       /\ DefaultDuration >= 26

\* the outlines for 25 and for 26 minutes: the first stops at 'Conclusion', the
\* second is the shortest that ends with 'Q&A'
C28_Witness ==
    /\ phase = "done"
    /\ input.duration = 25
    /\ input.duration2 = 26
    /\ Len(output.outline) = 12
    /\ output.outline[12] = Conclusion
    /\ Len(output.outline2) = 13
    /\ EndsWithClosing(output.outline2)

\* ---- the error flag of the responses (specification Spec)

\* The response reports a failure: its text starts with the cross mark of the
\* handlers' failure messages or with the 'Error: ' of the outer catch.
ReportsFailure ==
    LET
        \* crossMark is the text "{CROSS_MARK}"
        crossMark == <<"CROSS_MARK">>
        \* errorColon is the text "Error:\s"
        errorColon == <<"E","r","r","o","r",":"," ">>
    IN  StartsWith(response.text, crossMark) \/ StartsWith(response.text, errorColon)

\* C29: a response that reports a failure (invalid arguments, unknown tool,
\* validation errors of the deck, a filesystem or process error) carries
\* isError = TRUE, and a response without isError = TRUE reports no failure.
C29_FailuresFlagged ==
    (pc = "responded") => (ReportsFailure <=> response.isError = Some(TRUE))

\* ---- concurrent add-slide calls (specification SpecAddSlides)

\* both calls have answered with the success message
BothAdded ==
    \A i \in Callers :
        pc[i] = "responded" /\ response[i] = AddedSlideResponse(PathPlain)

\* the file holds both new slides and every slide either call read, and two
\* slides more than the shorter of the two texts read
NoSlideLost ==
    LET final == Split(fs[PathPlain], SlideDelimiter)
        Read(i) == Split(local[i].content, SlideDelimiter)
    IN  /\ \A i \in Callers :
               /\ \E k \in 1..Len(final) : final[k] = request[i].arguments.fields.slideContent.value
               /\ \A n \in 1..Len(Read(i)) : \E k \in 1..Len(final) : final[k] = Read(i)[n]
        /\ Len(final) = Min2(Len(Read(1)), Len(Read(2))) + 2

OneAfterTheOther ==
    \E i, j \in Callers : i # j /\ local[j].content = local[i].newContent

====
